---- MODULE Spec2Model ----
(***************************************************************************)
(* The retrieval core of research-chatbot: the VectorStore (two insertion- *)
(* ordered maps, vectors and metadata, persisted as vectors.json and       *)
(* metadata.json) and the EmbeddingService it calls.  Handlers are async   *)
(* JavaScript functions: the code between two awaits runs as one step, and *)
(* the steps of different calls interleave at the awaits.                  *)
(***************************************************************************)
EXTENDS Integers, Sequences, FiniteSets, TLC

VARIABLES
  vectors,        \* this.vectors: Map chunkId -> embedding, in insertion order
  metadata,       \* this.metadata: Map chunkId -> chunk record, in insertion order
  isInitialized,  \* this.isInitialized
  disk,           \* the two files under storePath
  calls,          \* the addDocument and removeDocument calls under way, with their locals
  last,           \* the call that ended in the step just taken: its arguments and outcome
  made,           \* how many calls were made
  faults,         \* how many embedding requests and file writes failed
  overlaps,       \* how many mutating calls were made while another one was under way
  listening,      \* startServer has reached app.listen
  alive,          \* the process is running
  now,            \* the clock read by new Date()
  committed,      \* the index as it stood when the last synchronous mutation ended
  proc,           \* a processPDF or chunkText call: its arguments, locals and outcome
  sim,            \* a calculateSimilarity call: its arguments and outcome
  readers,        \* the initialize and search calls under way on the store, with their locals
  loads,          \* how many times loadFromDisk was run
  emb,            \* the EmbeddingService: isInitialized, the pipeline loads, its calls under way
  pre,            \* a preprocessText call: its argument and outcome
  app             \* the ResearchChatApp of the front end and its requests under way

vars == <<vectors, metadata, isInitialized, disk, calls, last, made, faults, overlaps,
          listening, alive, now, committed, proc, sim, readers, loads, emb, pre, app>>

(* the variables of the vector store and its server *)
storeVars == <<vectors, metadata, isInitialized, disk, calls, last, made, faults, overlaps,
               listening, alive, now, committed>>

(* the variables of a DocumentProcessor call and of a calculateSimilarity call *)
pureVars == <<proc, sim>>

(* the variables of the initialize and search calls that are under way *)
lazyVars == <<readers, loads>>

(* the variables of the EmbeddingService and of the front end *)
svcVars == <<emb, pre>>
appVars == <<app>>

----------------------------------------------------------------------------
(* Program constants *)

batchSize == 10
DefaultTopK == 10

(* Bounds of the model *)

MaxCalls == 3
MaxChunks == 2
MaxInFlight == 2
MaxFaults == 1
MaxOverlaps == 1
DocIds == {"D1", "D2"}
Texts == {"a", "b"}
QueryTexts == {"a"}
TopKs == {1, DefaultTopK}
Filters == {<<>>, <<"D1">>}

----------------------------------------------------------------------------
(* JavaScript Map: a sequence of entries [k, v] in insertion order *)

MapHas(m, k) == \E i \in 1..Len(m) : m[i].k = k

MapGet(m, k) == m[CHOOSE i \in 1..Len(m) : m[i].k = k].v

MapSet(m, k, v) ==
  IF MapHas(m, k)
    THEN [i \in 1..Len(m) |-> IF m[i].k = k THEN [k |-> k, v |-> v] ELSE m[i]]
    ELSE Append(m, [k |-> k, v |-> v])

MapDelete(m, k) == SelectSeq(m, LAMBDA e : e.k # k)

MapKeys(m) == {m[i].k : i \in 1..Len(m)}

MapSize(m) == Len(m)

----------------------------------------------------------------------------
(* Files.  A file is missing, whole (it holds the JSON text of one         *)
(* snapshot) or partial (opened for writing and truncated, not yet         *)
(* written to the end).                                                    *)

Missing == [kind |-> "missing", data |-> <<>>]
Partial == [kind |-> "partial", data |-> <<>>]
Whole(d) == [kind |-> "whole", data |-> d]

(* Keys that are canonical array indices come first in an object's        *)
(* property order, ascending; the other keys keep their insertion order.  *)
IndexKeys == {ToString(n) : n \in 0..MaxChunks}

IsIndexKey(k) == k \in IndexKeys

KeyNum(k) == CHOOSE n \in 0..MaxChunks : ToString(n) = k

ObjectFromEntries(m) ==
  SortSeq(SelectSeq(m, LAMBDA e : IsIndexKey(e.k)),
          LAMBDA x, y : KeyNum(x.k) < KeyNum(y.k))
    \o SelectSeq(m, LAMBDA e : ~IsIndexKey(e.k))

ObjectEntries(o) == o

JSONStringify(o) == Whole(o)

(* JSON.parse of what a file holds: a truncated text is no JSON text *)
JSONParses(f) == f.kind = "whole"

JSONParse(f) == f.data

----------------------------------------------------------------------------
(* EmbeddingService *)

(* The model with pooling 'mean', normalize true: a unit vector per text *)
model(cleanText) ==
  CASE cleanText = "a" -> <<1, 0>>
    [] cleanText = "b" -> <<0, 1>>
    [] OTHER -> <<-1, 0>>

(* generateEmbedding: the texts of Texts are clean, preprocessText leaves  *)
(* them as they are                                                       *)
generateEmbedding(text) == model(text)

(* generateBatchEmbeddings when every request is answered: batch after     *)
(* batch, the vectors of a batch in the order of its texts                 *)
RECURSIVE BatchLoop(_, _)
BatchLoop(cleanTexts, embeddings) ==
  IF Len(embeddings) >= Len(cleanTexts) THEN embeddings
  ELSE LET i == Len(embeddings)
           batch == SubSeq(cleanTexts, i + 1,
                           IF i + batchSize < Len(cleanTexts) THEN i + batchSize
                           ELSE Len(cleanTexts))
       IN BatchLoop(cleanTexts,
                    embeddings \o [j \in 1..Len(batch) |-> generateEmbedding(batch[j])])

generateBatchEmbeddings(texts) == BatchLoop(texts, <<>>)

(* texts.slice(i, i + batchSize): where the batch that starts at i ends *)
BatchEndNone(i, n) == n

BatchEnd(i, n) == IF i + batchSize < n THEN i + batchSize ELSE n

RECURSIVE SumSeq(_)
SumSeq(s) == IF s = <<>> THEN 0 ELSE Head(s) + SumSeq(Tail(s))

ISqrt(n) == CHOOSE r \in 0..n : r * r <= n /\ (r + 1) * (r + 1) > n

(* A JavaScript number: NaN, or a value *)
NaN == [nan |-> TRUE, num |-> 0]
Num(x) == [nan |-> FALSE, num |-> x]

calculateSimilarity(embedding1, embedding2) ==
  IF Len(embedding1) # Len(embedding2) THEN Num(0)
  ELSE
    LET dotProduct == SumSeq([i \in 1..Len(embedding1) |-> embedding1[i] * embedding2[i]])
        norm1 == SumSeq([i \in 1..Len(embedding1) |-> embedding1[i] * embedding1[i]])
        norm2 == SumSeq([i \in 1..Len(embedding2) |-> embedding2[i] * embedding2[i]])
    IN IF ISqrt(norm1) * ISqrt(norm2) = 0 THEN NaN
       ELSE Num(dotProduct \div (ISqrt(norm1) * ISqrt(norm2)))

----------------------------------------------------------------------------
(* preprocessText.  Its argument is a string of any characters, given by   *)
(* its runs: a run is n > 0 equal characters, and neighbouring runs differ. *)
(* A character is "w" (matched by [\w.,!?-]), "s" (a space), "t" (another  *)
(* whitespace character, a tab or a newline) or "x" (any other character). *)

MaxInputLength == 512

Run(c, n) == [c |-> c, n |-> n]

IsWhitespace(c) == c \in {"s", "t"}

(* the runs of a string from pieces of which neighbours may be equal or empty *)
RECURSIVE Runs(_)
Runs(r) ==
  IF r = <<>> THEN <<>>
  ELSE IF Head(r).n = 0 THEN Runs(Tail(r))
  ELSE LET rest == Runs(Tail(r))
       IN IF rest # <<>> /\ rest[1].c = Head(r).c
            THEN <<Run(Head(r).c, Head(r).n + rest[1].n)>> \o Tail(rest)
            ELSE <<Head(r)>> \o rest

(* replace(/\s+/g, ' ') *)
CollapseWhitespace(text) ==
  LET spaces == Runs([i \in 1..Len(text) |->
                        IF IsWhitespace(text[i].c) THEN Run("s", text[i].n) ELSE text[i]])
  IN [i \in 1..Len(spaces) |-> IF spaces[i].c = "s" THEN Run("s", 1) ELSE spaces[i]]

(* replace(/[^\w\s.,!?-]/g, '') *)
StripOthers(text) == Runs(SelectSeq(text, LAMBDA r : r.c # "x"))

(* trim() *)
RECURSIVE TrimStart(_)
TrimStart(text) ==
  IF text # <<>> /\ IsWhitespace(Head(text).c) THEN TrimStart(Tail(text)) ELSE text

RECURSIVE TrimEnd(_)
TrimEnd(text) ==
  IF text # <<>> /\ IsWhitespace(text[Len(text)].c)
    THEN TrimEnd(SubSeq(text, 1, Len(text) - 1))
    ELSE text

(* substring(0, end) *)
RECURSIVE Substring(_, _)
Substring(text, end) ==
  IF text = <<>> \/ end <= 0 THEN <<>>
  ELSE IF Head(text).n >= end THEN <<Run(Head(text).c, end)>>
  ELSE <<Head(text)>> \o Substring(Tail(text), end - Head(text).n)

preprocessText(text) ==
  IF text = <<>> THEN <<>>
  ELSE Substring(TrimEnd(TrimStart(StripOthers(CollapseWhitespace(text)))), MaxInputLength)

----------------------------------------------------------------------------
(* JavaScript strings of words and single spaces.  A string is the        *)
(* non-empty sequence of the pieces that its spaces separate, which is    *)
(* what split(' ') returns: "a b" is <<"a", "b">>, " a" is <<"", "a">>,    *)
(* the empty string is <<"">>.                                            *)

EmptyString == <<"">>
Space == <<"", "">>

StrLen(s) == SumSeq([i \in 1..Len(s) |-> Len(s[i])]) + Len(s) - 1

(* a + b *)
StrCat(a, b) == SubSeq(a, 1, Len(a) - 1) \o <<a[Len(a)] \o b[1]>> \o Tail(b)

(* String.prototype.trim *)
Trim(s) ==
  LET full == {i \in 1..Len(s) : s[i] # ""}
  IN IF full = {} THEN EmptyString
     ELSE SubSeq(s, CHOOSE i \in full : \A j \in full : i <= j,
                    CHOOSE i \in full : \A j \in full : i >= j)

(* String.prototype.split(' ') and Array.prototype.join(' ') *)
Split(s) == s
Join(words) == IF words = <<>> THEN EmptyString ELSE words

(* Array.prototype.slice(start): -0 is 0, a negative start counts from the end *)
SliceFrom(a, start) ==
  LET from == IF start < 0 THEN (IF Len(a) + start < 0 THEN 0 ELSE Len(a) + start)
              ELSE (IF start > Len(a) THEN Len(a) ELSE start)
  IN SubSeq(a, from + 1, Len(a))

----------------------------------------------------------------------------
(* DocumentProcessor *)

DefaultMaxChunkSize == 1000
DefaultOverlap == 200
MinChunkLength == 50
CharsPerWord == 6

getOverlapText(text, overlapSize) ==
  LET words == Split(text)
      floor == overlapSize \div CharsPerWord
      overlapWords == IF floor < Len(words) THEN floor ELSE Len(words)
  IN Join(SliceFrom(words, 0 - overlapWords))

(* the body of the loop of chunkText for one sentence: the locals after it *)
ChunkSentence(c, sentence) ==
  LET sentenceSize == StrLen(sentence)
  IN IF c.currentSize + sentenceSize > c.maxChunkSize /\ StrLen(c.currentChunk) > 0
       THEN LET overlapText == getOverlapText(c.currentChunk, c.overlap)
                next == StrCat(StrCat(overlapText, Space), sentence)
            IN [c EXCEPT !.chunks = Append(@, Trim(c.currentChunk)),
                         !.overlapText = overlapText,
                         !.currentChunk = next,
                         !.currentSize = StrLen(next)]
       ELSE [c EXCEPT !.currentChunk =
                         StrCat(@, StrCat(IF @ # EmptyString THEN Space ELSE EmptyString,
                                          sentence)),
                      !.currentSize = @ + sentenceSize]

(* a chunkText that forgets the chunk it is still filling when the loop ends *)
LastChunkForgotten(c) == c.chunks

(* chunkText after its loop: the last chunk *)
LastChunk(c) ==
  IF StrLen(Trim(c.currentChunk)) > 0 THEN Append(c.chunks, Trim(c.currentChunk))
  ELSE c.chunks

(* a filter that keeps a chunk of exactly the minimum length *)
FilterShortInclusive(chunks) ==
  SelectSeq(chunks, LAMBDA chunk : StrLen(chunk) >= MinChunkLength)

(* chunks.filter(chunk => chunk.length > 50) *)
FilterShort(chunks) == SelectSeq(chunks, LAMBDA chunk : StrLen(chunk) > MinChunkLength)

----------------------------------------------------------------------------
(* VectorStore: the synchronous parts *)

chunkId(documentId, i) == documentId \o "_chunk_" \o ToString(i)

(* { documentId, chunkIndex: i, text, ...metadata, createdAt }: a later key *)
(* overrides an earlier one                                                *)
ChunkRecord(documentId, i, text, meta, t) ==
  [createdAt |-> t] @@ meta @@ [documentId |-> documentId, chunkIndex |-> i, text |-> text]

(* a loop that numbers the chunks after those the document already has *)
InsertChunksAppending(index, documentId, chunks, embeddings, meta, t, i) ==
  LET n == Len(SelectSeq(index.metadata, LAMBDA e : e.v.documentId = documentId))
  IN [vectors |-> index.vectors \o
        [j \in 1..Len(chunks) |-> [k |-> chunkId(documentId, n + j - 1), v |-> embeddings[j]]],
      metadata |-> index.metadata \o
        [j \in 1..Len(chunks) |->
           [k |-> chunkId(documentId, n + j - 1),
            v |-> ChunkRecord(documentId, n + j - 1, chunks[j], meta, t)]]]

(* the loop of addDocument, chunks i..n-1 *)
RECURSIVE InsertChunks(_, _, _, _, _, _, _)
InsertChunks(index, documentId, chunks, embeddings, meta, t, i) ==
  IF i >= Len(chunks) THEN index
  ELSE InsertChunks(
         [vectors |-> MapSet(index.vectors, chunkId(documentId, i), embeddings[i + 1]),
          metadata |-> MapSet(index.metadata, chunkId(documentId, i),
                              ChunkRecord(documentId, i, chunks[i + 1], meta, t))],
         documentId, chunks, embeddings, meta, t, i + 1)

(* the two loops of removeDocument *)
ChunksToRemove(meta, documentId) ==
  SelectSeq(meta, LAMBDA e : e.v.documentId = documentId)

RECURSIVE DeleteAll(_, _)
DeleteAll(m, es) == IF es = <<>> THEN m ELSE DeleteAll(MapDelete(m, Head(es).k), Tail(es))

(* a delete loop that forgets this.metadata.delete *)
RemoveChunksVectorsOnly(index, documentId) ==
  LET chunksToRemove == ChunksToRemove(index.metadata, documentId)
  IN [vectors |-> DeleteAll(index.vectors, chunksToRemove),
      metadata |-> index.metadata]

RemoveChunks(index, documentId) ==
  LET chunksToRemove == ChunksToRemove(index.metadata, documentId)
  IN [vectors |-> DeleteAll(index.vectors, chunksToRemove),
      metadata |-> DeleteAll(index.metadata, chunksToRemove)]

(* documentIds: null, or an array of ids *)
Null == [isNull |-> TRUE, ids |-> <<>>]
Ids(s) == [isNull |-> FALSE, ids |-> s]
Includes(s, x) == \E i \in 1..Len(s) : s[i] = x

(* Array.prototype.sort with (a, b) => b.similarity - a.similarity: stable; *)
(* a NaN difference counts as 0                                            *)
Compare(a, b) ==
  IF a.similarity.nan \/ b.similarity.nan THEN 0
  ELSE b.similarity.num - a.similarity.num

(* a sort that is not stable: an element goes before its equals *)
RECURSIVE InsertSortedUnstable(_, _)
InsertSortedUnstable(sorted, x) ==
  IF sorted = <<>> THEN <<x>>
  ELSE IF Compare(sorted[Len(sorted)], x) < 0 THEN Append(sorted, x)
  ELSE Append(InsertSortedUnstable(SubSeq(sorted, 1, Len(sorted) - 1), x), sorted[Len(sorted)])

RECURSIVE InsertSorted(_, _)
InsertSorted(sorted, x) ==
  IF sorted = <<>> THEN <<x>>
  ELSE IF Compare(sorted[Len(sorted)], x) <= 0 THEN Append(sorted, x)
  ELSE Append(InsertSorted(SubSeq(sorted, 1, Len(sorted) - 1), x), sorted[Len(sorted)])

RECURSIVE SortResults(_)
SortResults(s) ==
  IF s = <<>> THEN <<>>
  ELSE InsertSorted(SortResults(SubSeq(s, 1, Len(s) - 1)), s[Len(s)])

(* Array.prototype.slice(0, end) *)
Slice(s, end) ==
  LET e == IF end < 0 THEN (IF Len(s) + end < 0 THEN 0 ELSE Len(s) + end)
           ELSE (IF end > Len(s) THEN Len(s) ELSE end)
  IN SubSeq(s, 1, e)

(* a loop that takes an empty documentIds array for no filter *)
CandidatesEmptyFilterIsNone(vecs, meta, queryEmbedding, documentIds) ==
  LET passes(e) == \/ documentIds.isNull
                   \/ documentIds.ids = <<>>
                   \/ Includes(documentIds.ids, MapGet(meta, e.k).documentId)
      kept == SelectSeq(vecs, passes)
  IN [i \in 1..Len(kept) |->
        [chunkId |-> kept[i].k,
         similarity |-> calculateSimilarity(queryEmbedding, kept[i].v),
         metadata |-> MapGet(meta, kept[i].k),
         text |-> MapGet(meta, kept[i].k).text]]

(* the loop of search over this.vectors.entries(); reading a property of  *)
(* an undefined metadata throws                                           *)
Candidates(vecs, meta, queryEmbedding, documentIds) ==
  LET passes(e) == documentIds.isNull \/ Includes(documentIds.ids, MapGet(meta, e.k).documentId)
      kept == SelectSeq(vecs, passes)
  IN [i \in 1..Len(kept) |->
        [chunkId |-> kept[i].k,
         similarity |-> calculateSimilarity(queryEmbedding, kept[i].v),
         metadata |-> MapGet(meta, kept[i].k),
         text |-> MapGet(meta, kept[i].k).text]]

SearchThrows(vecs, meta) == \E i \in 1..Len(vecs) : ~MapHas(meta, vecs[i].k)

SearchResults(vecs, meta, queryText, topK, documentIds) ==
  Slice(SortResults(Candidates(vecs, meta, generateEmbedding(queryText), documentIds)), topK)

(* getDocumentStats *)
RECURSIVE DocumentStats(_, _)
DocumentStats(meta, acc) ==
  IF meta = <<>> THEN acc
  ELSE LET md == Head(meta).v
           cur == IF MapHas(acc, md.documentId) THEN MapGet(acc, md.documentId)
                  ELSE [documentId |-> md.documentId, chunkCount |-> 0, totalCharacters |-> 0]
       IN DocumentStats(Tail(meta),
            MapSet(acc, md.documentId,
                   [cur EXCEPT !.chunkCount = @ + 1, !.totalCharacters = @ + Len(md.text)]))

getDocumentStats(vecs, meta) ==
  LET documentStats == DocumentStats(meta, <<>>)
  IN [totalDocuments |-> MapSize(documentStats),
      totalChunks |-> MapSize(vecs),
      documents |-> [i \in 1..Len(documentStats) |-> documentStats[i].v]]

(* saveToDisk up to its await: the two texts to write *)
Snapshot(index) ==
  [vectors |-> JSONStringify(ObjectFromEntries(index.vectors)),
   metadata |-> JSONStringify(ObjectFromEntries(index.metadata))]

(* a loadFromDisk that loads each file that is there and parses *)
loadFromDiskEachFile(index, d) ==
  [vectors |-> IF JSONParses(d.vectors) THEN ObjectEntries(JSONParse(d.vectors))
               ELSE index.vectors,
   metadata |-> IF JSONParses(d.metadata) THEN ObjectEntries(JSONParse(d.metadata))
                ELSE index.metadata]

(* loadFromDisk: what the two maps are after it *)
loadFromDisk(index, d) ==
  IF d.vectors.kind # "missing" /\ d.metadata.kind # "missing"
    THEN IF JSONParses(d.vectors) /\ JSONParses(d.metadata)
           THEN [vectors |-> ObjectEntries(JSONParse(d.vectors)),
                 metadata |-> ObjectEntries(JSONParse(d.metadata))]
           ELSE [vectors |-> <<>>, metadata |-> <<>>]
    ELSE index

----------------------------------------------------------------------------
(* The calls.  A slot of calls holds an addDocument or removeDocument call *)
(* that is under way: its arguments, its position (pc) and its locals.     *)

Slots == 1..MaxInFlight

NoOut == [status |-> "none", kind |-> "", results |-> <<>>, count |-> 0, total |-> 0]
Returned(results, count, total) ==
  [status |-> "ok", kind |-> "", results |-> results, count |-> count, total |-> total]
Thrown(kind) == [status |-> "error", kind |-> kind, results |-> <<>>, count |-> 0, total |-> 0]

FileNames == {"vectors", "metadata"}

Idle ==
  [op |-> "none", pc |-> "idle", documentId |-> "", chunks |-> <<>>,
   meta |-> [filename |-> ""], i |-> 0, had |-> 0, count |-> 0,
   snapshot |-> [vectors |-> Missing, metadata |-> Missing],
   write |-> [vectors |-> "none", metadata |-> "none"]]

NoCall ==
  [op |-> "none", documentId |-> "", chunks |-> <<>>, queryText |-> "", topK |-> 0,
   documentIds |-> Null, at |-> 0, readCommitted |-> TRUE, out |-> NoOut]

(* no processPDF or chunkText call, no calculateSimilarity call: their locals *)
NoChunking ==
  [pc |-> "idle", via |-> "", sentences |-> <<>>, maxChunkSize |-> 0, overlap |-> 0,
   i |-> 0, chunks |-> <<>>, currentChunk |-> EmptyString, currentSize |-> 0,
   overlapText |-> EmptyString, out |-> <<>>]

NoSimilarity == [pc |-> "idle", embedding1 |-> <<>>, embedding2 |-> <<>>, out |-> Num(0)]

(* no initialize or search call under way in a slot of readers *)
NoReader ==
  [op |-> "none", pc |-> "idle", queryText |-> "", topK |-> 0, documentIds |-> Null]

MaxReaders == 2
Readers == 1..MaxReaders

(* the EmbeddingService as constructed, none of its calls under way *)
MaxCallers == 2
Callers == 1..MaxCallers

(* a generateEmbedding call: its argument and its position *)
NoSingle == [pc |-> "idle", text |-> ""]

(* a generateBatchEmbeddings call: its argument, its locals, and for each  *)
(* text the generateEmbedding request made for it and its answer           *)
NoBatch ==
  [pc |-> "idle", texts |-> <<>>, cleanTexts |-> <<>>, i |-> 0, embeddings |-> <<>>,
   requests |-> <<>>, answers |-> <<>>]

(* the call of the service that ended in the step just taken *)
NoServiceCall == [op |-> "none", texts |-> <<>>, status |-> "none", kind |-> "", out |-> <<>>]

NoEmbedding ==
  [isInitialized |-> FALSE, pipelines |-> 0, made |-> 0, faults |-> 0,
   singles |-> [c \in Callers |-> NoSingle], batch |-> NoBatch, last |-> NoServiceCall]

(* no preprocessText call *)
NoPreprocess == [pc |-> "idle", text |-> <<>>, once |-> <<>>, twice |-> <<>>]

(* the front end before the page has constructed its ResearchChatApp: the *)
(* fields of the app, its requests under way, and the documents the        *)
(* backend holds                                                           *)
NoApp ==
  [pc |-> "none", isBackendConnected |-> FALSE, activeDocuments |-> <<>>,
   documentList |-> <<>>, health |-> "none", loading |-> 0, fetched |-> 0,
   upload |-> "none", uploads |-> 0, poll |-> "none", pollId |-> 0, attempts |-> 0,
   notification |-> "", backend |-> <<>>]

(* the record of a call of a slot as it ends *)
Ended(c, t, out) ==
  [NoCall EXCEPT !.op = c.op, !.documentId = c.documentId, !.chunks = c.chunks,
                 !.at = t, !.out = out]

ChunkSeqs == {[i \in 1..n |-> IF i = n THEN "a" ELSE "b"] : n \in 1..MaxChunks}
Metas == {[filename |-> "f.pdf"]}
FilterArgs == {Null} \cup {Ids(f) : f \in Filters}

Index == [vectors |-> vectors, metadata |-> metadata]
EmptyIndex == [vectors |-> <<>>, metadata |-> <<>>]

(* the chunk ids of a document in a metadata map *)
DocChunkIds(meta, documentId) == MapKeys(ChunksToRemove(meta, documentId))

InFlight == {p \in Slots : calls[p].pc \in {"embed", "save"}}

Writing(c) == \E f \in FileNames : c.write[f] \in {"queued", "open"}

(* the slot the next call takes *)
IsFree(p) == calls[p].pc = "idle" /\ \A q \in 1..(p - 1) : calls[q].pc # "idle"

Serving == alive /\ listening

Accepting == Serving /\ made < MaxCalls

(* a mutating call may be made *)
AcceptingWrite == Accepting /\ (InFlight = {} \/ overlaps < MaxOverlaps)

MayFail == faults < MaxFaults

(* What an earlier run of the server left under storePath: nothing, or the *)
(* two files of an index of one document                                   *)
EarlierIndexes ==
  {InsertChunks(EmptyIndex, "D1", <<"b", "a">>, generateBatchEmbeddings(<<"b", "a">>),
                [filename |-> "f.pdf"], 0, 0)}

InitDisks ==
  {[vectors |-> Missing, metadata |-> Missing]} \cup {Snapshot(ix) : ix \in EarlierIndexes}

Init ==
  /\ vectors = <<>>
  /\ metadata = <<>>
  /\ isInitialized = FALSE
  /\ disk \in InitDisks
  /\ calls = [p \in Slots |-> Idle]
  /\ last = NoCall
  /\ made = 0
  /\ faults = 0
  /\ overlaps = 0
  /\ listening = FALSE
  /\ alive = TRUE
  /\ now = 1
  /\ committed = EmptyIndex
  /\ proc = NoChunking
  /\ sim = NoSimilarity
  /\ readers = [q \in Readers |-> NoReader]
  /\ loads = 0
  /\ emb = NoEmbedding
  /\ pre = NoPreprocess
  /\ app = NoApp

(* startServer: initialize() of the store (mkdir, loadFromDisk), then listen *)
Startup ==
  /\ alive /\ ~listening
  /\ LET loaded == IF isInitialized THEN Index ELSE loadFromDisk(Index, disk)
     IN /\ vectors' = loaded.vectors
        /\ metadata' = loaded.metadata
        /\ committed' = loaded
  /\ isInitialized' = TRUE
  /\ listening' = TRUE
  /\ last' = NoCall
  /\ UNCHANGED <<disk, calls, made, faults, overlaps, alive, now>>
  /\ UNCHANGED <<pureVars, lazyVars, svcVars, appVars>>

(* addDocument is called: generateBatchEmbeddings is awaited *)
AddStart(p, documentId, chunks, meta) ==
  /\ AcceptingWrite /\ IsFree(p)
  /\ calls' = [calls EXCEPT ![p] = [Idle EXCEPT !.op = "add", !.pc = "embed",
                   !.documentId = documentId, !.chunks = chunks, !.meta = meta]]
  /\ made' = made + 1
  /\ overlaps' = IF InFlight # {} THEN overlaps + 1 ELSE overlaps
  /\ last' = NoCall
  /\ UNCHANGED <<vectors, metadata, isInitialized, disk, faults, listening, alive,
                 now, committed>>
  /\ UNCHANGED <<pureVars, lazyVars, svcVars, appVars>>

(* an addDocument that stores each embedding as it arrives: the first is   *)
(* in the maps when a later request fails                                 *)
AddEmbedFailAfterFirst(p) ==
  /\ alive /\ MayFail /\ calls[p].pc = "embed"
  /\ LET c == calls[p]
         after == InsertChunks(Index, c.documentId, SubSeq(c.chunks, 1, 1),
                               generateBatchEmbeddings(SubSeq(c.chunks, 1, 1)), c.meta, now, 0)
     IN /\ vectors' = after.vectors
        /\ metadata' = after.metadata
        /\ committed' = after
  /\ calls' = [calls EXCEPT ![p] = Idle]
  /\ last' = Ended(calls[p], now, Thrown("embedding"))
  /\ faults' = faults + 1
  /\ UNCHANGED <<isInitialized, disk, made, overlaps, listening, alive, now>>
  /\ UNCHANGED <<pureVars, lazyVars, svcVars, appVars>>

(* a request of a batch fails: Promise.all rejects, generateBatchEmbeddings *)
(* and addDocument rethrow                                                 *)
AddEmbedFail(p) ==
  /\ alive /\ MayFail /\ calls[p].pc = "embed"
  /\ calls' = [calls EXCEPT ![p] = Idle]
  /\ last' = Ended(calls[p], now, Thrown("embedding"))
  /\ faults' = faults + 1
  /\ UNCHANGED <<vectors, metadata, isInitialized, disk, made, overlaps, listening,
                 alive, now, committed>>
  /\ UNCHANGED <<pureVars, lazyVars, svcVars, appVars>>

(* an insert loop that awaits in its body: one chunk a step *)
AddInsertChunkByChunk(p) ==
  /\ alive /\ calls[p].pc = "embed"
  /\ LET c == calls[p]
         upto == SubSeq(c.chunks, 1, c.i + 1)
         after == InsertChunks(Index, c.documentId, upto, generateBatchEmbeddings(upto),
                               c.meta, now, c.i)
         finished == c.i + 1 = Len(c.chunks)
     IN /\ vectors' = after.vectors
        /\ metadata' = after.metadata
        /\ committed' = IF finished THEN after ELSE committed
        /\ calls' = IF finished
                      THEN [calls EXCEPT ![p].pc = "save", ![p].i = Len(c.chunks),
                                         ![p].snapshot = Snapshot(after),
                                         ![p].write = [vectors |-> "queued", metadata |-> "queued"]]
                      ELSE [calls EXCEPT ![p].i = c.i + 1]
        /\ now' = IF finished THEN now + 1 ELSE now
  /\ last' = NoCall
  /\ UNCHANGED <<isInitialized, disk, made, faults, overlaps, listening, alive>>
  /\ UNCHANGED <<pureVars, lazyVars, svcVars, appVars>>

(* the embeddings are back: the insert loop, then saveToDisk up to its await *)
AddInsert(p) ==
  /\ alive /\ calls[p].pc = "embed"
  /\ LET c == calls[p]
         embeddings == generateBatchEmbeddings(c.chunks)
         after == InsertChunks(Index, c.documentId, c.chunks, embeddings, c.meta, now, 0)
     IN /\ vectors' = after.vectors
        /\ metadata' = after.metadata
        /\ committed' = after
        /\ calls' = [calls EXCEPT ![p].pc = "save", ![p].i = Len(c.chunks),
                                  ![p].had = Cardinality(DocChunkIds(metadata, c.documentId)),
                                  ![p].snapshot = Snapshot(after),
                                  ![p].write = [vectors |-> "queued", metadata |-> "queued"]]
  /\ now' = now + 1
  /\ last' = NoCall
  /\ UNCHANGED <<isInitialized, disk, made, faults, overlaps, listening, alive>>
  /\ UNCHANGED <<pureVars, lazyVars, svcVars, appVars>>

(* a removeDocument that throws when the document has no chunk *)
RemoveStartNotFound(p, documentId) ==
  /\ AcceptingWrite /\ IsFree(p)
  /\ LET after == RemoveChunks(Index, documentId)
         found == Len(ChunksToRemove(metadata, documentId)) > 0
     IN /\ vectors' = after.vectors
        /\ metadata' = after.metadata
        /\ committed' = after
        /\ calls' = IF found
                      THEN [calls EXCEPT ![p] = [Idle EXCEPT !.op = "remove", !.pc = "save",
                               !.documentId = documentId,
                               !.count = Len(ChunksToRemove(metadata, documentId)),
                               !.snapshot = Snapshot(after),
                               !.write = [vectors |-> "queued", metadata |-> "queued"]]]
                      ELSE calls
        /\ last' = IF found THEN NoCall
                   ELSE [NoCall EXCEPT !.op = "remove", !.documentId = documentId,
                                       !.at = now, !.out = Thrown("notfound")]
  /\ made' = made + 1
  /\ overlaps' = IF InFlight # {} THEN overlaps + 1 ELSE overlaps
  /\ now' = now + 1
  /\ UNCHANGED <<isInitialized, disk, faults, listening, alive>>
  /\ UNCHANGED <<pureVars, lazyVars, svcVars, appVars>>

(* a removeDocument that saves before its loops *)
RemoveStartSavingFirst(p, documentId) ==
  /\ AcceptingWrite /\ IsFree(p)
  /\ LET after == RemoveChunks(Index, documentId)
     IN /\ vectors' = after.vectors
        /\ metadata' = after.metadata
        /\ committed' = after
        /\ calls' = [calls EXCEPT ![p] = [Idle EXCEPT !.op = "remove", !.pc = "save",
                         !.documentId = documentId,
                         !.count = Len(ChunksToRemove(metadata, documentId)),
                         !.snapshot = Snapshot(Index),
                         !.write = [vectors |-> "queued", metadata |-> "queued"]]]
  /\ made' = made + 1
  /\ overlaps' = IF InFlight # {} THEN overlaps + 1 ELSE overlaps
  /\ now' = now + 1
  /\ last' = NoCall
  /\ UNCHANGED <<isInitialized, disk, faults, listening, alive>>
  /\ UNCHANGED <<pureVars, lazyVars, svcVars, appVars>>

(* removeDocument is called: both loops, then saveToDisk up to its await *)
RemoveStart(p, documentId) ==
  /\ AcceptingWrite /\ IsFree(p)
  /\ LET after == RemoveChunks(Index, documentId)
     IN /\ vectors' = after.vectors
        /\ metadata' = after.metadata
        /\ committed' = after
        /\ calls' = [calls EXCEPT ![p] = [Idle EXCEPT !.op = "remove", !.pc = "save",
                         !.documentId = documentId,
                         !.count = Len(ChunksToRemove(metadata, documentId)),
                         !.snapshot = Snapshot(after),
                         !.write = [vectors |-> "queued", metadata |-> "queued"]]]
  /\ made' = made + 1
  /\ overlaps' = IF InFlight # {} THEN overlaps + 1 ELSE overlaps
  /\ now' = now + 1
  /\ last' = NoCall
  /\ UNCHANGED <<isInitialized, disk, faults, listening, alive>>
  /\ UNCHANGED <<pureVars, lazyVars, svcVars, appVars>>

(* fs.writeFile of one file: it is opened and truncated, then written *)
WriteOpen(p, f) ==
  /\ alive /\ calls[p].write[f] = "queued"
  /\ disk' = [disk EXCEPT ![f] = Partial]
  /\ calls' = [calls EXCEPT ![p].write[f] = "open"]
  /\ last' = NoCall
  /\ UNCHANGED <<vectors, metadata, isInitialized, made, faults, overlaps,
                 listening, alive, now, committed>>
  /\ UNCHANGED <<pureVars, lazyVars, svcVars, appVars>>

(* the call of a slot after the write of f ended as how *)
Settled(c, f, how) ==
  LET w == [c.write EXCEPT ![f] = how]
      d == [c EXCEPT !.write = w]
  IN IF c.pc = "save" /\ how = "done" /\ \A g \in FileNames : w[g] = "done" THEN Idle
     ELSE IF c.pc = "save" /\ how = "failed"
       THEN (IF Writing(d) THEN [d EXCEPT !.pc = "thrown"] ELSE Idle)
     ELSE IF c.pc = "thrown" /\ ~Writing(d) THEN Idle
     ELSE d

(* the file is written to the end; when it is the second of the two, *)
(* saveToDisk returns and the call returns its result                *)
WriteFinish(p, f) ==
  /\ alive /\ calls[p].write[f] = "open"
  /\ disk' = [disk EXCEPT ![f] = calls[p].snapshot[f]]
  /\ LET c == calls[p]
         returns == c.pc = "save" /\ \A g \in FileNames \ {f} : c.write[g] = "done"
     IN /\ calls' = [calls EXCEPT ![p] = Settled(c, f, "done")]
        /\ last' = IF ~returns THEN NoCall
                   ELSE IF c.op = "add"
                     THEN Ended(c, now, Returned(<<>>, Len(c.chunks), MapSize(vectors)))
                     ELSE Ended(c, now, Returned(<<>>, c.count, 0))
  /\ UNCHANGED <<vectors, metadata, isInitialized, made, faults, overlaps, listening,
                 alive, now, committed>>
  /\ UNCHANGED <<pureVars, lazyVars, svcVars, appVars>>

(* fs.writeFile rejects (the file could not be opened, or not written to   *)
(* the end): Promise.all rejects, saveToDisk and the call rethrow; the     *)
(* other write goes on                                                     *)
WriteFail(p, f) ==
  /\ alive /\ MayFail /\ calls[p].write[f] \in {"queued", "open"}
  /\ calls' = [calls EXCEPT ![p] = Settled(calls[p], f, "failed")]
  /\ last' = IF calls[p].pc = "save" THEN Ended(calls[p], now, Thrown("persistence"))
             ELSE NoCall
  /\ faults' = faults + 1
  /\ UNCHANGED <<vectors, metadata, isInitialized, disk, made, overlaps, listening,
                 alive, now, committed>>
  /\ UNCHANGED <<pureVars, lazyVars, svcVars, appVars>>

(* search: generateEmbedding(queryText) is awaited, then the loop, the     *)
(* sort and the slice run in one piece                                     *)
Search(queryText, topK, documentIds) ==
  /\ Accepting
  /\ isInitialized
  /\ last' = [NoCall EXCEPT
          !.op = "search", !.queryText = queryText, !.topK = topK,
          !.documentIds = documentIds,
          !.readCommitted = (Index = committed),
          !.at = now,
          !.out = IF SearchThrows(vectors, metadata) THEN Thrown("type")
                  ELSE Returned(SearchResults(vectors, metadata, queryText, topK,
                                              documentIds), 0, 0)]
  /\ made' = made + 1
  /\ UNCHANGED <<vectors, metadata, isInitialized, disk, calls, faults, overlaps,
                 listening, alive, now, committed>>
  /\ UNCHANGED <<pureVars, lazyVars, svcVars, appVars>>

(* the query embedding fails: search rethrows *)
SearchEmbedFail(queryText, topK, documentIds) ==
  /\ Accepting /\ MayFail
  /\ isInitialized
  /\ last' = [NoCall EXCEPT
          !.op = "search", !.queryText = queryText, !.topK = topK,
          !.documentIds = documentIds, !.at = now, !.out = Thrown("embedding")]
  /\ made' = made + 1
  /\ faults' = faults + 1
  /\ UNCHANGED <<vectors, metadata, isInitialized, disk, calls, overlaps, listening,
                 alive, now, committed>>
  /\ UNCHANGED <<pureVars, lazyVars, svcVars, appVars>>

(* getDocumentStats is called: it has no await *)
Stats ==
  /\ alive
  /\ LET stats == getDocumentStats(vectors, metadata)
     IN last' = [NoCall EXCEPT !.op = "stats", !.at = now,
                   !.out = Returned(stats.documents, stats.totalDocuments, stats.totalChunks)]
  /\ made' = made + 1
  /\ UNCHANGED <<vectors, metadata, isInitialized, disk, calls, faults, overlaps,
                 listening, alive, now, committed>>
  /\ UNCHANGED <<pureVars, lazyVars, svcVars, appVars>>

(* the process stops while a save is under way *)
Crash ==
  /\ Serving
  /\ \E p \in Slots : Writing(calls[p])
  /\ alive' = FALSE
  /\ last' = NoCall
  /\ UNCHANGED <<vectors, metadata, isInitialized, disk, calls, made, faults,
                 overlaps, listening, now, committed>>
  /\ UNCHANGED <<pureVars, lazyVars, svcVars, appVars>>

Next ==
  \/ Startup
  \/ \E p \in Slots, d \in DocIds, ch \in ChunkSeqs, m \in Metas : AddStart(p, d, ch, m)
  \/ \E p \in Slots : AddEmbedFail(p)
  \/ \E p \in Slots : AddInsert(p)
  \/ \E p \in Slots, d \in DocIds : RemoveStart(p, d)
  \/ \E p \in Slots, f \in FileNames : WriteOpen(p, f)
  \/ \E p \in Slots, f \in FileNames : WriteFinish(p, f)
  \/ \E p \in Slots, f \in FileNames : WriteFail(p, f)
  \/ \E q \in QueryTexts, k \in TopKs, ids \in FilterArgs : Search(q, k, ids)
  \/ \E q \in QueryTexts, k \in TopKs, ids \in FilterArgs : SearchEmbedFail(q, k, ids)
  \/ Crash

Spec == Init /\ [][Next]_vars

----------------------------------------------------------------------------
(* The server started over whatever earlier runs left under storePath     *)
(* (a stopped or failed save leaves a file missing, half-written, or the  *)
(* two files of two snapshots), then called with one call at a time, with *)
(* any topK and with documents of no chunk.                               *)

MaxRestartCalls == 2

AnyTopKs == TopKs \cup {-1, 0}
AnyChunkSeqs == ChunkSeqs \cup {<<>>}

LeftFiles(f) ==
  {Missing, Partial} \cup {Snapshot(ix)[f] : ix \in EarlierIndexes \cup {EmptyIndex}}

RestartDisks == [vectors : LeftFiles("vectors"), metadata : LeftFiles("metadata")]

InitRestart ==
  /\ vectors = <<>>
  /\ metadata = <<>>
  /\ isInitialized = FALSE
  /\ disk \in RestartDisks
  /\ calls = [p \in Slots |-> Idle]
  /\ last = NoCall
  /\ made = 0
  /\ faults = 0
  /\ overlaps = 0
  /\ listening = FALSE
  /\ alive = TRUE
  /\ now = 1
  /\ committed = EmptyIndex
  /\ proc = NoChunking
  /\ sim = NoSimilarity
  /\ readers = [q \in Readers |-> NoReader]
  /\ loads = 0
  /\ emb = NoEmbedding
  /\ pre = NoPreprocess
  /\ app = NoApp

(* a call may be made: no other is under way *)
AcceptingNext == made < MaxRestartCalls /\ InFlight = {}

AddNext(p, documentId, chunks, meta) == AcceptingNext /\ AddStart(p, documentId, chunks, meta)

RemoveNext(p, documentId) == AcceptingNext /\ RemoveStart(p, documentId)

SearchNext(queryText, topK, documentIds) == AcceptingNext /\ Search(queryText, topK, documentIds)

SearchEmbedFailNext(queryText, topK, documentIds) ==
  AcceptingNext /\ SearchEmbedFail(queryText, topK, documentIds)

StatsNext == listening /\ AcceptingNext /\ Stats

NextRestart ==
  \/ Startup
  \/ \E p \in Slots, d \in DocIds, ch \in AnyChunkSeqs, m \in Metas : AddNext(p, d, ch, m)
  \/ \E p \in Slots : AddEmbedFail(p)
  \/ \E p \in Slots : AddInsert(p)
  \/ \E p \in Slots, d \in DocIds : RemoveNext(p, d)
  \/ \E p \in Slots, f \in FileNames : WriteOpen(p, f)
  \/ \E p \in Slots, f \in FileNames : WriteFinish(p, f)
  \/ \E p \in Slots, f \in FileNames : WriteFail(p, f)
  \/ \E q \in QueryTexts, k \in AnyTopKs, ids \in FilterArgs : SearchNext(q, k, ids)
  \/ \E q \in QueryTexts, k \in AnyTopKs, ids \in FilterArgs : SearchEmbedFailNext(q, k, ids)
  \/ StatsNext
  \/ Crash

SpecRestart == InitRestart /\ [][NextRestart]_vars

----------------------------------------------------------------------------
(* A VectorStore instance in the hands of its callers as constructed: the  *)
(* module exports the instance, and initialize, addDocument,               *)
(* removeDocument, search and getDocumentStats are called on it in any     *)
(* order, initialize and search also while another call is under way.      *)

MaxInstanceCalls == 2

(* a caller's metadata object: any keys, also those of the chunk record *)
AnyMetas == Metas \cup {[documentId |-> "D2", chunkIndex |-> 7, text |-> "b"]}

InitInstance ==
  /\ vectors = <<>>
  /\ metadata = <<>>
  /\ isInitialized = FALSE
  /\ disk \in InitDisks
  /\ calls = [p \in Slots |-> Idle]
  /\ last = NoCall
  /\ made = 0
  /\ faults = 0
  /\ overlaps = 0
  /\ listening = TRUE
  /\ alive = TRUE
  /\ now = 1
  /\ committed = EmptyIndex
  /\ proc = NoChunking
  /\ sim = NoSimilarity
  /\ readers = [q \in Readers |-> NoReader]
  /\ loads = 0
  /\ emb = NoEmbedding
  /\ pre = NoPreprocess
  /\ app = NoApp

AcceptingCall == alive /\ made < MaxInstanceCalls

(* the slot of readers the next call takes *)
IsFreeReader(q) == readers[q].pc = "idle" /\ \A r \in 1..(q - 1) : readers[r].pc # "idle"

AddCall(p, documentId, chunks, meta) == AcceptingCall /\ AddStart(p, documentId, chunks, meta)

RemoveCall(p, documentId) == AcceptingCall /\ RemoveStart(p, documentId)

StatsCall == AcceptingCall /\ Stats

(* initialize() is called: it returns at once when isInitialized, otherwise *)
(* fs.mkdir is awaited                                                     *)
InitializeCall(q) ==
  /\ AcceptingCall /\ IsFreeReader(q)
  /\ IF isInitialized
       THEN /\ readers' = readers
            /\ last' = [NoCall EXCEPT !.op = "initialize", !.at = now,
                                      !.out = Returned(<<>>, 0, 0)]
       ELSE /\ readers' = [readers EXCEPT ![q] =
                             [NoReader EXCEPT !.op = "initialize", !.pc = "mkdir"]]
            /\ last' = NoCall
  /\ made' = made + 1
  /\ UNCHANGED <<vectors, metadata, isInitialized, disk, calls, faults, overlaps,
                 listening, alive, now, committed, loads>>
  /\ UNCHANGED <<pureVars, svcVars, appVars>>

(* search is called: initialize() is awaited when not isInitialized,       *)
(* otherwise generateEmbedding(queryText)                                  *)
SearchCall(q, queryText, topK, documentIds) ==
  /\ AcceptingCall /\ IsFreeReader(q)
  /\ readers' = [readers EXCEPT ![q] =
                   [NoReader EXCEPT !.op = "search",
                                    !.pc = IF isInitialized THEN "embed" ELSE "mkdir",
                                    !.queryText = queryText, !.topK = topK,
                                    !.documentIds = documentIds]]
  /\ last' = NoCall
  /\ made' = made + 1
  /\ UNCHANGED <<vectors, metadata, isInitialized, disk, calls, faults, overlaps,
                 listening, alive, now, committed, loads>>
  /\ UNCHANGED <<pureVars, svcVars, appVars>>

(* the record of a call of a slot of readers as it ends *)
ReaderEnded(r, t, out) ==
  [NoCall EXCEPT !.op = r.op, !.queryText = r.queryText, !.topK = r.topK,
                 !.documentIds = r.documentIds, !.at = t, !.out = out]

(* fs.mkdir is done: loadFromDisk is called and awaits its file accesses *)
MkdirDone(q) ==
  /\ alive /\ readers[q].pc = "mkdir"
  /\ readers' = [readers EXCEPT ![q].pc = "load"]
  /\ loads' = loads + 1
  /\ last' = NoCall
  /\ UNCHANGED <<vectors, metadata, isInitialized, disk, calls, made, faults, overlaps,
                 listening, alive, now, committed>>
  /\ UNCHANGED <<pureVars, svcVars, appVars>>

(* fs.mkdir rejects: initialize rethrows, and so does a search that        *)
(* awaited it                                                              *)
MkdirFail(q) ==
  /\ alive /\ MayFail /\ readers[q].pc = "mkdir"
  /\ readers' = [readers EXCEPT ![q] = NoReader]
  /\ last' = ReaderEnded(readers[q], now, Thrown("initialization"))
  /\ faults' = faults + 1
  /\ UNCHANGED <<vectors, metadata, isInitialized, disk, calls, made, overlaps,
                 listening, alive, now, committed, loads>>
  /\ UNCHANGED <<pureVars, svcVars, appVars>>

(* the files were accessed and read: loadFromDisk sets the two maps and    *)
(* returns, initialize sets isInitialized and returns                      *)
LoadDone(q) ==
  /\ alive /\ readers[q].pc = "load"
  /\ LET loaded == loadFromDisk(Index, disk)
     IN /\ vectors' = loaded.vectors
        /\ metadata' = loaded.metadata
        /\ committed' = loaded
  /\ isInitialized' = TRUE
  /\ IF readers[q].op = "search"
       THEN /\ readers' = [readers EXCEPT ![q].pc = "embed"]
            /\ last' = NoCall
       ELSE /\ readers' = [readers EXCEPT ![q] = NoReader]
            /\ last' = ReaderEnded(readers[q], now, Returned(<<>>, 0, 0))
  /\ UNCHANGED <<disk, calls, made, faults, overlaps, listening, alive, now, loads>>
  /\ UNCHANGED <<pureVars, svcVars, appVars>>

(* the query embedding is back: the loop, the sort and the slice *)
SearchDone(q) ==
  /\ alive /\ readers[q].pc = "embed"
  /\ LET r == readers[q]
     IN last' = [ReaderEnded(r, now,
                    IF SearchThrows(vectors, metadata) THEN Thrown("type")
                    ELSE Returned(SearchResults(vectors, metadata, r.queryText, r.topK,
                                                r.documentIds), 0, 0))
                  EXCEPT !.readCommitted = (Index = committed)]
  /\ readers' = [readers EXCEPT ![q] = NoReader]
  /\ UNCHANGED <<vectors, metadata, isInitialized, disk, calls, made, faults, overlaps,
                 listening, alive, now, committed, loads>>
  /\ UNCHANGED <<pureVars, svcVars, appVars>>

(* the query embedding fails: search rethrows *)
SearchFail(q) ==
  /\ alive /\ MayFail /\ readers[q].pc = "embed"
  /\ readers' = [readers EXCEPT ![q] = NoReader]
  /\ last' = ReaderEnded(readers[q], now, Thrown("embedding"))
  /\ faults' = faults + 1
  /\ UNCHANGED <<vectors, metadata, isInitialized, disk, calls, made, overlaps,
                 listening, alive, now, committed, loads>>
  /\ UNCHANGED <<pureVars, svcVars, appVars>>

NextInstance ==
  \/ \E p \in Slots, d \in DocIds, ch \in ChunkSeqs, m \in AnyMetas : AddCall(p, d, ch, m)
  \/ \E p \in Slots : AddEmbedFail(p)
  \/ \E p \in Slots : AddInsert(p)
  \/ \E p \in Slots, d \in DocIds : RemoveCall(p, d)
  \/ \E p \in Slots, f \in FileNames : WriteOpen(p, f)
  \/ \E p \in Slots, f \in FileNames : WriteFinish(p, f)
  \/ \E p \in Slots, f \in FileNames : WriteFail(p, f)
  \/ \E q \in Readers : InitializeCall(q)
  \/ \E q \in Readers, t \in QueryTexts, k \in TopKs, ids \in FilterArgs :
       SearchCall(q, t, k, ids)
  \/ \E q \in Readers : MkdirDone(q)
  \/ \E q \in Readers : MkdirFail(q)
  \/ \E q \in Readers : LoadDone(q)
  \/ \E q \in Readers : SearchDone(q)
  \/ \E q \in Readers : SearchFail(q)
  \/ StatsCall

SpecInstance == InitInstance /\ [][NextInstance]_vars

(* The same instance over the files that an earlier process wrote for    *)
(* document KeptDocument, when addDocument and removeDocument are called  *)
(* for other documents only.                                              *)
KeptDocument == "D1"

InitKept == InitInstance /\ disk \in {Snapshot(ix) : ix \in EarlierIndexes}

OtherDocIds == DocIds \ {KeptDocument}

NextKept ==
  \/ \E p \in Slots, d \in OtherDocIds, ch \in ChunkSeqs, m \in Metas : AddCall(p, d, ch, m)
  \/ \E p \in Slots : AddEmbedFail(p)
  \/ \E p \in Slots : AddInsert(p)
  \/ \E p \in Slots, d \in OtherDocIds : RemoveCall(p, d)
  \/ \E p \in Slots, f \in FileNames : WriteOpen(p, f)
  \/ \E p \in Slots, f \in FileNames : WriteFinish(p, f)
  \/ \E p \in Slots, f \in FileNames : WriteFail(p, f)
  \/ \E q \in Readers : InitializeCall(q)
  \/ \E q \in Readers, t \in QueryTexts, k \in TopKs, ids \in FilterArgs :
       SearchCall(q, t, k, ids)
  \/ \E q \in Readers : MkdirDone(q)
  \/ \E q \in Readers : MkdirFail(q)
  \/ \E q \in Readers : LoadDone(q)
  \/ \E q \in Readers : SearchDone(q)
  \/ \E q \in Readers : SearchFail(q)
  \/ StatsCall

SpecKept == InitKept /\ [][NextKept]_vars

(* The same instance when the storage layer answers every request made to *)
(* it (fs.mkdir, the file reads, fs.writeFile), while the embedding        *)
(* provider may leave a request without an answer.  The code sets no timer *)
(* around an await: no step of a call is taken before the answer it waits  *)
(* for.                                                                    *)
StorageAnswers ==
  /\ \A p \in Slots, f \in FileNames : WF_vars(WriteOpen(p, f)) /\ WF_vars(WriteFinish(p, f))
  /\ \A q \in Readers : WF_vars(MkdirDone(q)) /\ WF_vars(LoadDone(q))

SpecSilentProvider == InitInstance /\ [][NextInstance]_vars /\ StorageAnswers

----------------------------------------------------------------------------
(* The EmbeddingService as constructed and its callers: generateEmbedding  *)
(* calls and one generateBatchEmbeddings call at a time, started while     *)
(* others are under way.  The pipeline and the model answer each request   *)
(* in any order, or fail.                                                  *)

MaxEmbeddingCalls == 2
MaxTexts == 11

TextCounts == {0, 1, batchSize, MaxTexts}

(* the texts of a batch call: "a" and "b" in turn *)
BatchTexts == {[j \in 1..n |-> IF j % 2 = 1 THEN "a" ELSE "b"] : n \in TextCounts}

InitEmbedding ==
  /\ vectors = <<>>
  /\ metadata = <<>>
  /\ isInitialized = FALSE
  /\ disk = [vectors |-> Missing, metadata |-> Missing]
  /\ calls = [p \in Slots |-> Idle]
  /\ last = NoCall
  /\ made = 0
  /\ faults = 0
  /\ overlaps = 0
  /\ listening = FALSE
  /\ alive = TRUE
  /\ now = 1
  /\ committed = EmptyIndex
  /\ proc = NoChunking
  /\ sim = NoSimilarity
  /\ readers = [q \in Readers |-> NoReader]
  /\ loads = 0
  /\ emb = NoEmbedding
  /\ pre = NoPreprocess
  /\ app = NoApp

notEmb == <<storeVars, pureVars, lazyVars, pre, appVars>>

AcceptingText == emb.made < MaxEmbeddingCalls

ServiceMayFail == emb.faults < MaxFaults

IsFreeCaller(c) ==
  emb.singles[c].pc = "idle" /\ \A d \in 1..(c - 1) : emb.singles[d].pc # "idle"

ServiceReturned(op, texts, out) ==
  [op |-> op, texts |-> texts, status |-> "ok", kind |-> "", out |-> out]

ServiceThrown(op, texts, kind) ==
  [op |-> op, texts |-> texts, status |-> "error", kind |-> kind, out |-> <<>>]

(* generateEmbedding(text) is called: initialize() is awaited when not      *)
(* isInitialized, and it awaits pipeline(); otherwise the model is awaited *)
GenerateEmbedding(c, text) ==
  /\ AcceptingText /\ IsFreeCaller(c)
  /\ emb' = [emb EXCEPT !.made = @ + 1,
                        !.singles[c] = [pc |-> IF emb.isInitialized THEN "model" ELSE "pipeline",
                                        text |-> text],
                        !.pipelines = IF emb.isInitialized THEN @ ELSE @ + 1,
                        !.last = NoServiceCall]
  /\ UNCHANGED notEmb

(* pipeline() is back: initialize sets the model and isInitialized, the    *)
(* caller goes on to the model                                             *)
PipelineDone(c) ==
  /\ emb.singles[c].pc = "pipeline"
  /\ emb' = [emb EXCEPT !.isInitialized = TRUE, !.singles[c].pc = "model",
                        !.last = NoServiceCall]
  /\ UNCHANGED notEmb

(* pipeline() rejects: initialize rethrows, and so does its caller *)
PipelineFail(c) ==
  /\ ServiceMayFail /\ emb.singles[c].pc = "pipeline"
  /\ emb' = [emb EXCEPT !.singles[c] = NoSingle, !.faults = @ + 1,
                        !.last = ServiceThrown("generateEmbedding", <<emb.singles[c].text>>,
                                               "initialization")]
  /\ UNCHANGED notEmb

(* the model is back: generateEmbedding returns the vector *)
ModelDone(c) ==
  /\ emb.singles[c].pc = "model"
  /\ emb' = [emb EXCEPT !.singles[c] = NoSingle,
                        !.last = ServiceReturned("generateEmbedding", <<emb.singles[c].text>>,
                                                 <<generateEmbedding(emb.singles[c].text)>>)]
  /\ UNCHANGED notEmb

(* the model rejects: generateEmbedding rethrows *)
ModelFail(c) ==
  /\ ServiceMayFail /\ emb.singles[c].pc = "model"
  /\ emb' = [emb EXCEPT !.singles[c] = NoSingle, !.faults = @ + 1,
                        !.last = ServiceThrown("generateEmbedding", <<emb.singles[c].text>>,
                                               "embedding")]
  /\ UNCHANGED notEmb

(* batch.map(text => this.generateEmbedding(text)) for the batch that      *)
(* starts at b.i: each request runs up to its await of the model           *)
IssueBatch(b) ==
  LET n == Len(b.cleanTexts)
  IN [b EXCEPT !.pc = "batch",
               !.requests = [j \in 1..n |-> IF j > b.i /\ j <= BatchEnd(b.i, n) THEN "pending"
                                            ELSE b.requests[j]]]

(* the loop of generateBatchEmbeddings from its head: the next batch is    *)
(* issued, or the loop is over and the call returns                        *)
LoopHead(b) == IF b.i < Len(b.cleanTexts) THEN IssueBatch(b) ELSE NoBatch

LoopReturn(b) ==
  IF b.i < Len(b.cleanTexts) THEN NoServiceCall
  ELSE ServiceReturned("generateBatchEmbeddings", b.texts, b.embeddings)

(* the locals of generateBatchEmbeddings(texts) as its loop starts *)
BatchLocals(texts) ==
  [NoBatch EXCEPT !.texts = texts, !.cleanTexts = texts,
                  !.requests = [j \in 1..Len(texts) |-> "unsent"],
                  !.answers = [j \in 1..Len(texts) |-> <<>>]]

(* generateBatchEmbeddings(texts) is called *)
GenerateBatch(texts) ==
  /\ AcceptingText /\ emb.batch.pc = "idle"
  /\ emb' = IF emb.isInitialized
              THEN [emb EXCEPT !.made = @ + 1,
                               !.batch = LoopHead(BatchLocals(texts)),
                               !.last = LoopReturn(BatchLocals(texts))]
              ELSE [emb EXCEPT !.made = @ + 1,
                               !.batch = [NoBatch EXCEPT !.pc = "pipeline", !.texts = texts],
                               !.pipelines = @ + 1,
                               !.last = NoServiceCall]
  /\ UNCHANGED notEmb

(* pipeline() is back for the batch call *)
BatchPipelineDone ==
  /\ emb.batch.pc = "pipeline"
  /\ emb' = [emb EXCEPT !.isInitialized = TRUE,
                        !.batch = LoopHead(BatchLocals(emb.batch.texts)),
                        !.last = LoopReturn(BatchLocals(emb.batch.texts))]
  /\ UNCHANGED notEmb

BatchPipelineFail ==
  /\ ServiceMayFail /\ emb.batch.pc = "pipeline"
  /\ emb' = [emb EXCEPT !.batch = NoBatch, !.faults = @ + 1,
                        !.last = ServiceThrown("generateBatchEmbeddings", emb.batch.texts,
                                               "initialization")]
  /\ UNCHANGED notEmb

Pending(b) == {j \in 1..Len(b.requests) : b.requests[j] = "pending"}

(* the model answers request j of the batch call; when it is the last of   *)
(* its batch, Promise.all resolves with the answers in the order of the    *)
(* batch, they are pushed and the loop goes on                             *)
RequestDone(j) ==
  /\ j \in Pending(emb.batch)
  /\ LET b == [emb.batch EXCEPT !.requests[j] = "done",
                                !.answers[j] = generateEmbedding(emb.batch.cleanTexts[j])]
         n == Len(b.cleanTexts)
         resolved == b.pc = "batch" /\ Pending(b) = {}
         pushed == [b EXCEPT !.embeddings = @ \o SubSeq(b.answers, b.i + 1, BatchEnd(b.i, n)),
                             !.i = @ + batchSize]
     IN emb' = IF resolved
                 THEN [emb EXCEPT !.batch = LoopHead(pushed), !.last = LoopReturn(pushed)]
               ELSE IF b.pc = "thrown" /\ Pending(b) = {}
                 THEN [emb EXCEPT !.batch = NoBatch, !.last = NoServiceCall]
               ELSE [emb EXCEPT !.batch = b, !.last = NoServiceCall]
  /\ UNCHANGED notEmb

(* the model rejects request j: Promise.all rejects at once and the batch  *)
(* call rethrows; the other requests of the batch go on                    *)
RequestFail(j) ==
  /\ ServiceMayFail /\ j \in Pending(emb.batch)
  /\ LET b == [emb.batch EXCEPT !.requests[j] = "failed"]
     IN emb' = [emb EXCEPT
                  !.faults = @ + 1,
                  !.batch = IF Pending(b) = {} THEN NoBatch ELSE [b EXCEPT !.pc = "thrown"],
                  !.last = IF b.pc = "batch"
                             THEN ServiceThrown("generateBatchEmbeddings", b.texts, "embedding")
                           ELSE NoServiceCall]
  /\ UNCHANGED notEmb

NextEmbedding ==
  \/ \E c \in Callers, t \in QueryTexts : GenerateEmbedding(c, t)
  \/ \E c \in Callers : PipelineDone(c)
  \/ \E c \in Callers : PipelineFail(c)
  \/ \E c \in Callers : ModelDone(c)
  \/ \E c \in Callers : ModelFail(c)
  \/ \E texts \in BatchTexts : GenerateBatch(texts)
  \/ BatchPipelineDone
  \/ BatchPipelineFail
  \/ \E j \in 1..MaxTexts : RequestDone(j)
  \/ \E j \in 1..MaxTexts : RequestFail(j)

SpecEmbedding == InitEmbedding /\ [][NextEmbedding]_vars

----------------------------------------------------------------------------
(* The texts on their way to the model.  generateEmbedding hands           *)
(* preprocessText(text) to the model; generateBatchEmbeddings calls        *)
(* generateEmbedding with preprocessText(text), which preprocesses it      *)
(* again.                                                                  *)

MaxRuns == 3

RunLengths == {1, 2, MaxInputLength - 1, MaxInputLength}

PieceSeqs ==
  UNION {[1..n -> {Run(c, k) : c \in {"w", "s", "t", "x"}, k \in RunLengths}] : n \in 0..MaxRuns}

InputTexts == {Runs(r) : r \in PieceSeqs}

InitPreprocess ==
  /\ vectors = <<>>
  /\ metadata = <<>>
  /\ isInitialized = FALSE
  /\ disk = [vectors |-> Missing, metadata |-> Missing]
  /\ calls = [p \in Slots |-> Idle]
  /\ last = NoCall
  /\ made = 0
  /\ faults = 0
  /\ overlaps = 0
  /\ listening = FALSE
  /\ alive = TRUE
  /\ now = 1
  /\ committed = EmptyIndex
  /\ proc = NoChunking
  /\ sim = NoSimilarity
  /\ readers = [q \in Readers |-> NoReader]
  /\ loads = 0
  /\ emb = NoEmbedding
  /\ pre = NoPreprocess
  /\ app = NoApp

(* cleanTexts = texts.map(text => this.preprocessText(text)), for one text *)
PreprocessText(text) ==
  /\ pre.pc = "idle"
  /\ pre' = [pc |-> "once", text |-> text, once |-> preprocessText(text), twice |-> <<>>]
  /\ UNCHANGED <<storeVars, pureVars, lazyVars, emb, appVars>>

(* generateEmbedding(cleanText): const cleanText = this.preprocessText(text) *)
PreprocessAgain ==
  /\ pre.pc = "once"
  /\ pre' = [pre EXCEPT !.pc = "twice", !.twice = preprocessText(pre.once)]
  /\ UNCHANGED <<storeVars, pureVars, lazyVars, emb, appVars>>

NextPreprocess ==
  \/ \E text \in InputTexts : PreprocessText(text)
  \/ PreprocessAgain

SpecPreprocess == InitPreprocess /\ [][NextPreprocess]_vars

----------------------------------------------------------------------------
(* The front end.  The page constructs one ResearchChatApp; the backend    *)
(* answers each request the app makes; the user uploads a file and clicks  *)
(* on documents of the list.                                               *)

maxAttempts == 30

MaxUploads == 1

(* a document as the backend reports it *)
Doc(id, status) ==
  [id |-> id, is_processed |-> (status = "completed"), processing_status |-> status]

(* what the backend holds when the page is opened *)
Backends ==
  {<<>>, <<Doc(1, "completed")>>, <<Doc(1, "completed"), Doc(2, "processing")>>,
   <<Doc(1, "completed"), Doc(2, "completed")>>}

InitApp ==
  /\ vectors = <<>>
  /\ metadata = <<>>
  /\ isInitialized = FALSE
  /\ disk = [vectors |-> Missing, metadata |-> Missing]
  /\ calls = [p \in Slots |-> Idle]
  /\ last = NoCall
  /\ made = 0
  /\ faults = 0
  /\ overlaps = 0
  /\ listening = FALSE
  /\ alive = TRUE
  /\ now = 1
  /\ committed = EmptyIndex
  /\ proc = NoChunking
  /\ sim = NoSimilarity
  /\ readers = [q \in Readers |-> NoReader]
  /\ loads = 0
  /\ emb = NoEmbedding
  /\ pre = NoPreprocess
  /\ app \in {[NoApp EXCEPT !.backend = b] : b \in Backends}

notApp == <<storeVars, pureVars, lazyVars, svcVars>>

(* loadDocuments() up to its await: it returns at once when the backend is *)
(* not known to be connected, otherwise getDocuments() is requested        *)
loadDocuments(a) ==
  IF ~a.isBackendConnected THEN a ELSE [a EXCEPT !.loading = @ + 1]

(* the ids of the processed documents of a response, as strings, in order *)
ProcessedIds(documents) ==
  LET processed == SelectSeq(documents, LAMBDA doc : doc.is_processed)
  IN [i \in 1..Len(processed) |-> ToString(processed[i].id)]

(* new ResearchChatApp(): the constructor sets the fields, calls           *)
(* checkBackendConnection(), which runs up to its await of healthCheck(),  *)
(* and then calls loadDocuments()                                          *)
Construct ==
  /\ app.pc = "none"
  /\ app' = loadDocuments([app EXCEPT !.pc = "constructed", !.activeDocuments = <<>>,
                                      !.isBackendConnected = FALSE, !.health = "pending"])
  /\ UNCHANGED notApp

(* healthCheck() resolves *)
HealthOk ==
  /\ app.health = "pending"
  /\ app' = [app EXCEPT !.health = "ok", !.isBackendConnected = TRUE,
                        !.notification = "Connected to backend server"]
  /\ UNCHANGED notApp

(* healthCheck() rejects *)
HealthFail ==
  /\ app.health = "pending"
  /\ app' = [app EXCEPT !.health = "failed", !.isBackendConnected = FALSE,
                        !.notification = "Backend server not available"]
  /\ UNCHANGED notApp

(* getDocuments() resolves with success: the list is cleared and filled,   *)
(* the processed documents become the active ones                          *)
DocumentsLoaded ==
  /\ app.loading > 0
  /\ app' = [app EXCEPT !.loading = @ - 1, !.fetched = @ + 1,
                        !.documentList = app.backend,
                        !.activeDocuments = ProcessedIds(app.backend)]
  /\ UNCHANGED notApp

(* the user picks a PDF file: handleFileUpload up to its await *)
HandleFileUpload ==
  /\ app.pc = "constructed" /\ app.upload = "none" /\ app.uploads < MaxUploads
  /\ app' = IF ~app.isBackendConnected
              THEN [app EXCEPT !.uploads = @ + 1,
                               !.notification = "Backend server not available"]
              ELSE [app EXCEPT !.uploads = @ + 1, !.upload = "pending"]
  /\ UNCHANGED notApp

(* uploadDocuments() resolves with success: the backend holds the new      *)
(* document; loadDocuments() is awaited                                    *)
UploadDone ==
  /\ app.upload = "pending"
  /\ LET id == Len(app.backend) + 1
     IN app' = loadDocuments([app EXCEPT !.upload = "loading", !.pollId = id,
                                          !.backend = Append(@, Doc(id, "uploaded")),
                                          !.notification = "Successfully uploaded"])
  /\ UNCHANGED notApp

(* the awaited loadDocuments() has ended: pollDocumentStatus(doc.id) for   *)
(* the uploaded document, poll() up to its await                           *)
UploadPolls ==
  /\ app.upload = "loading" /\ app.loading = 0
  /\ app' = [app EXCEPT !.upload = "none", !.poll = "request", !.attempts = 0]
  /\ UNCHANGED notApp

(* the backend processes the uploaded document, with or without success *)
BackendProcesses(status) ==
  /\ app.pollId > 0 /\ app.backend[app.pollId].processing_status = "uploaded"
  /\ app' = [app EXCEPT !.backend[app.pollId] = Doc(app.pollId, status)]
  /\ UNCHANGED notApp

(* getDocumentStatus() resolves *)
PollAnswer ==
  /\ app.poll = "request"
  /\ LET status == app.backend[app.pollId].processing_status
     IN app' = IF status = "completed"
                 THEN loadDocuments([app EXCEPT !.poll = "none"])
               ELSE IF status = "failed"
                 THEN [app EXCEPT !.poll = "none",
                                  !.notification = "Document processing failed"]
               ELSE [app EXCEPT !.attempts = @ + 1,
                                !.poll = IF app.attempts + 1 < maxAttempts THEN "timer"
                                         ELSE "none"]
  /\ UNCHANGED notApp

(* setTimeout(poll, 10000) fires *)
PollTimer ==
  /\ app.poll = "timer"
  /\ app' = [app EXCEPT !.poll = "request"]
  /\ UNCHANGED notApp

(* the user clicks on a processed document of the list *)
toggleDocumentSelection(documentId) ==
  /\ app.pc = "constructed"
  /\ \E i \in 1..Len(app.documentList) :
       app.documentList[i].is_processed /\ ToString(app.documentList[i].id) = documentId
  /\ app' = IF Includes(app.activeDocuments, documentId)
              THEN [app EXCEPT !.activeDocuments = SelectSeq(@, LAMBDA id : id # documentId)]
              ELSE [app EXCEPT !.activeDocuments = Append(@, documentId)]
  /\ UNCHANGED notApp

NextApp ==
  \/ Construct
  \/ HealthOk
  \/ HealthFail
  \/ DocumentsLoaded
  \/ HandleFileUpload
  \/ UploadDone
  \/ UploadPolls
  \/ \E status \in {"completed", "failed"} : BackendProcesses(status)
  \/ PollAnswer
  \/ PollTimer
  \/ \E id \in {"1", "2", "3"} : toggleDocumentSelection(id)

(* the backend answers every request and timers fire; the user may do     *)
(* nothing                                                                 *)
BackendAnswers ==
  /\ WF_vars(HealthOk \/ HealthFail)
  /\ WF_vars(DocumentsLoaded)
  /\ WF_vars(UploadDone)
  /\ WF_vars(UploadPolls)
  /\ WF_vars(PollAnswer)
  /\ WF_vars(PollTimer)

SpecApp == InitApp /\ [][NextApp]_vars /\ BackendAnswers

----------------------------------------------------------------------------
(* The calls of the DocumentProcessor and of calculateSimilarity, one at a *)
(* time.  A text is given by the sentences that splitIntoSentences finds   *)
(* in it (the sentence splitter is a library).                             *)

MaxSentences == 3

SentenceOne == <<"Sentence", "one.">>
SentenceTwo == <<"Sentence", "two.">>
SentenceThree == <<"Sentence", "three.">>

(* sentences of 13, 24, 25, 51 and 74 characters *)
SentencePool ==
  {SentenceOne,
   <<"Chunks", "overlap", "by", "words.">>,
   <<"Vectors", "are", "kept", "on", "disk.">>,
   <<"Search", "scores", "every", "chunk", "by", "its", "cosine", "similarity.">>,
   <<"The", "document", "processor", "splits", "the", "text", "of", "every", "uploaded",
     "file", "into", "chunks.">>}

SentenceSeqs ==
  {<<SentenceOne, SentenceTwo, SentenceThree>>}
    \cup UNION {[1..n -> SentencePool] : n \in 0..MaxSentences}

MaxChunkSizes == {49, 60, DefaultMaxChunkSize}
OverlapSizes == {0, 5, 12, DefaultOverlap}

SimVectors == {<<>>, <<1>>, <<0, 0>>, <<1, 0>>, <<0, 1>>, <<-1, 0>>, <<2, 0>>}

NoPureCall == proc.pc = "idle" /\ sim.pc = "idle"

InitProcessor ==
  /\ vectors = <<>>
  /\ metadata = <<>>
  /\ isInitialized = FALSE
  /\ disk = [vectors |-> Missing, metadata |-> Missing]
  /\ calls = [p \in Slots |-> Idle]
  /\ last = NoCall
  /\ made = 0
  /\ faults = 0
  /\ overlaps = 0
  /\ listening = FALSE
  /\ alive = TRUE
  /\ now = 1
  /\ committed = EmptyIndex
  /\ proc = NoChunking
  /\ sim = NoSimilarity
  /\ readers = [q \in Readers |-> NoReader]
  /\ loads = 0
  /\ emb = NoEmbedding
  /\ pre = NoPreprocess
  /\ app = NoApp

(* chunkText(text, maxChunkSize, overlap) is called *)
ChunkText(sentences, maxChunkSize, overlap) ==
  /\ NoPureCall
  /\ proc' = [NoChunking EXCEPT !.pc = "loop", !.via = "chunkText", !.sentences = sentences,
                                !.maxChunkSize = maxChunkSize, !.overlap = overlap]
  /\ UNCHANGED <<storeVars, sim, lazyVars, svcVars, appVars>>

(* processPDF: a text without content throws; any other text is chunked   *)
(* with the default sizes                                                 *)
ProcessPDF(sentences) ==
  /\ NoPureCall
  /\ proc' = IF sentences = <<>>
               THEN [NoChunking EXCEPT !.pc = "thrown", !.via = "processPDF"]
               ELSE [NoChunking EXCEPT !.pc = "loop", !.via = "processPDF",
                                       !.sentences = sentences,
                                       !.maxChunkSize = DefaultMaxChunkSize,
                                       !.overlap = DefaultOverlap]
  /\ UNCHANGED <<storeVars, sim, lazyVars, svcVars, appVars>>

(* one turn of the loop of chunkText *)
ChunkStep ==
  /\ proc.pc = "loop" /\ proc.i < Len(proc.sentences)
  /\ proc' = [ChunkSentence(proc, proc.sentences[proc.i + 1]) EXCEPT !.i = proc.i + 1]
  /\ UNCHANGED <<storeVars, sim, lazyVars, svcVars, appVars>>

(* the loop is over: the last chunk, the filter, the return *)
ChunkReturn ==
  /\ proc.pc = "loop" /\ proc.i = Len(proc.sentences)
  /\ proc' = [proc EXCEPT !.pc = "done", !.chunks = LastChunk(proc),
                          !.out = FilterShort(LastChunk(proc))]
  /\ UNCHANGED <<storeVars, sim, lazyVars, svcVars, appVars>>

(* calculateSimilarity(embedding1, embedding2) *)
Similarity(embedding1, embedding2) ==
  /\ NoPureCall
  /\ sim' = [pc |-> "done", embedding1 |-> embedding1, embedding2 |-> embedding2,
             out |-> calculateSimilarity(embedding1, embedding2)]
  /\ UNCHANGED <<storeVars, proc, lazyVars, svcVars, appVars>>

NextProcessor ==
  \/ \E ss \in SentenceSeqs, m \in MaxChunkSizes, o \in OverlapSizes : ChunkText(ss, m, o)
  \/ \E ss \in SentenceSeqs : ProcessPDF(ss)
  \/ ChunkStep
  \/ ChunkReturn
  \/ \E e1 \in SimVectors, e2 \in SimVectors : Similarity(e1, e2)

SpecProcessor == InitProcessor /\ [][NextProcessor]_vars

----------------------------------------------------------------------------
(* Properties *)

Max(a, b) == IF a > b THEN a ELSE b
Min(a, b) == IF a < b THEN a ELSE b

(* slot p runs the insert loop of addDocument in this step *)
Inserts(p) == calls[p].pc = "embed" /\ calls'[p].pc = "save"

Quiet == \A p \in Slots : calls[p].pc = "idle"

(* what a fresh instance holds after initialize() *)
Reloaded == loadFromDisk(EmptyIndex, disk)

(* C1: a step in which an addDocument call is made, or ends because an      *)
(* embedding request failed, changes neither the two maps nor the two     *)
(* files, and the call that ends so ends with an error.                   *)
C1_EmbeddingFailureChangesNothing ==
  [][\A p \in Slots :
       (calls[p].op = "add" \/ calls'[p].op = "add") /\ calls'[p] # calls[p]
         /\ (calls'[p].pc = "embed" \/ last'.out.kind = "embedding")
       => /\ vectors' = vectors /\ metadata' = metadata /\ disk' = disk
          /\ (calls[p].pc = "embed" => last'.op = "add" /\ last'.out.status = "error")]_vars

C1_Witness ==
  last.op = "add" /\ last.out.kind = "embedding" /\ Len(vectors) > 0 /\ disk.vectors.kind = "whole"

C3_ChunksAreLastIngestion ==
  (last.op = "add" /\ last.out.status = "ok" /\ Quiet /\ faults = 0) =>
    /\ \A j \in 1..Len(metadata) :
         metadata[j].k = chunkId(metadata[j].v.documentId, metadata[j].v.chunkIndex)
    /\ DocChunkIds(metadata, last.documentId)
         = {chunkId(last.documentId, i) : i \in 0..(Len(last.chunks) - 1)}

(* C4 as claimed: once every call has returned (none failed), the two      *)
(* files hold the final maps.                                             *)
C4_PersistedIsFinalState ==
  (alive /\ Quiet /\ faults = 0 /\ now > 1) => disk = Snapshot(Index)

(* C5 as claimed: when the process stops during a save, each file is whole *)
(* and the two files hold the same chunk ids.                             *)
C5_CrashLeavesWholeFiles ==
  ~alive =>
    /\ \A f \in FileNames : disk[f].kind # "partial"
    /\ (disk.vectors.kind = "whole" /\ disk.metadata.kind = "whole")
         => MapKeys(disk.vectors.data) = MapKeys(disk.metadata.data)

(* C6 as claimed: right after a call failed on a write (no write under     *)
(* way), a fresh instance loads the chunks the maps hold.                 *)
C6_FailedSaveNoDivergence ==
  (last.out.kind = "persistence" /\ \A p \in Slots : ~Writing(calls[p])) =>
    /\ MapKeys(Reloaded.vectors) = MapKeys(vectors)
    /\ MapKeys(Reloaded.metadata) = MapKeys(metadata)

Position(m, k) == CHOOSE i \in 1..Len(m) : m[i].k = k

(* C9 as claimed: results are in descending order of similarity, and two   *)
(* results of equal similarity are in ascending order of chunkIndex.      *)
C9_SortedTiesByOrdinal ==
  (last.op = "search" /\ last.out.status = "ok") =>
    \A i, j \in 1..Len(last.out.results) : i < j =>
      LET a == last.out.results[i]
          b == last.out.results[j]
      IN \/ a.similarity.num > b.similarity.num
         \/ /\ a.similarity.num = b.similarity.num
            /\ a.metadata.chunkIndex <= b.metadata.chunkIndex

(* C9, amended: results are in descending order of similarity, and two    *)
(* results of equal similarity are in the order in which their chunk ids  *)
(* were inserted into the index (the iteration order of the vectors map). *)
C9_SortedTiesByInsertion ==
  (last.op = "search" /\ last.out.status = "ok") =>
    \A i, j \in 1..Len(last.out.results) : i < j =>
      LET a == last.out.results[i]
          b == last.out.results[j]
      IN /\ ~a.similarity.nan /\ ~b.similarity.nan
         /\ \/ a.similarity.num > b.similarity.num
            \/ /\ a.similarity.num = b.similarity.num
               /\ Position(vectors, a.chunkId) < Position(vectors, b.chunkId)

(* a search sorted chunks that were not in order, with a tie whose        *)
(* ordinals descend                                                       *)
C9_Witness ==
  /\ last.op = "search" /\ last.out.status = "ok"
  /\ \E i, j \in 1..Len(last.out.results) :
       /\ i < j
       /\ last.out.results[i].similarity = last.out.results[j].similarity
       /\ last.out.results[i].metadata.chunkIndex > last.out.results[j].metadata.chunkIndex
  /\ \E i, j \in 1..Len(last.out.results) :
       /\ i < j
       /\ Position(vectors, last.out.results[i].chunkId)
            > Position(vectors, last.out.results[j].chunkId)

(* the chunks whose document is in a filter *)
Matching(meta, ids) ==
  {meta[j].k : j \in {j \in 1..Len(meta) : Includes(ids, meta[j].v.documentId)}}

(* C10: a search with a document id filter that is not stopped by its     *)
(* query embedding returns without error; every result is of a document   *)
(* of the filter; the results are min(topK, matching chunks) many, so     *)
(* every chunk of a document of the filter is returned when topK allows;  *)
(* an empty index or a filter matching no chunk gives no result.          *)
C10_FilterRespected ==
  (last.op = "search" /\ last.out.kind # "embedding") =>
    LET ids == last.documentIds.ids
        results == last.out.results
        matching == Matching(metadata, ids)
    IN /\ last.out.status = "ok"
       /\ (Len(vectors) = 0 => results = <<>>)
       /\ (~last.documentIds.isNull =>
             /\ \A i \in 1..Len(results) :
                  /\ Includes(ids, results[i].metadata.documentId)
                  /\ results[i].chunkId \in matching
             /\ Len(results) = Min(last.topK, Cardinality(matching))
             /\ (last.topK >= Cardinality(matching) =>
                  {results[i].chunkId : i \in 1..Len(results)} = matching)
             /\ (matching = {} => results = <<>>))

(* a filtered search over an index of two documents returned chunks *)
C10_Witness ==
  /\ last.op = "search" /\ last.out.status = "ok" /\ ~last.documentIds.isNull
  /\ Len(last.out.results) >= 2
  /\ Len(vectors) > Len(last.out.results)
  /\ last.topK > Len(last.out.results)

(* a filtered search matched no chunk of an index that holds chunks *)
C10_WitnessNoMatch ==
  /\ last.op = "search" /\ last.out.status = "ok" /\ ~last.documentIds.isNull
  /\ Len(vectors) > 0 /\ last.out.results = <<>>

(* how many chunks pass the filter of the search that just ended *)
Passing ==
  IF last.documentIds.isNull THEN Len(vectors)
  ELSE Cardinality({i \in 1..Len(vectors) :
                      /\ MapHas(metadata, vectors[i].k)
                      /\ Includes(last.documentIds.ids,
                                  MapGet(metadata, vectors[i].k).documentId)})

(* C11: a search that returns gives at most topK results for every        *)
(* integer topK, zero and negative ones included (a count that is at most *)
(* topK is at most max(topK, 0)), and min(topK, chunks passing the        *)
(* filter) results when topK >= 0.                                        *)
C11_AtMostTopK ==
  (last.op = "search" /\ last.out.status = "ok") =>
    /\ Len(last.out.results) <= Max(last.topK, 0)
    /\ last.topK >= 0 => Len(last.out.results) = Min(last.topK, Passing)

(* slot p starts a removeDocument call in this step: both loops run *)
Removes(p) == calls[p].pc = "idle" /\ calls'[p].op = "remove"

(* the entry of a document in the documents of getDocumentStats, if any *)
StatsOf(stats, documentId) ==
  SelectSeq(stats.documents, LAMBDA d : d.documentId = documentId)

(* C12: the loops of removeDocument(D) take every chunk of D out of both   *)
(* maps and leave every other entry as it was: afterwards the stats have   *)
(* no entry for D, the entries of the other documents are what they were, *)
(* and the count of the call is the number of chunks D had.  The call     *)
(* that returns returns that count.                                       *)
C12_RemoveFrame ==
  [][\A p \in Slots :
       /\ Removes(p) =>
            LET D == calls'[p].documentId
                before == getDocumentStats(vectors, metadata)
                after == getDocumentStats(vectors', metadata')
            IN /\ \A i \in 1..Len(metadata') : metadata'[i].v.documentId # D
               /\ \A i \in 1..Len(metadata) :
                    IF metadata[i].v.documentId = D
                      THEN ~MapHas(vectors', metadata[i].k)
                      ELSE /\ MapHas(metadata', metadata[i].k)
                           /\ MapGet(metadata', metadata[i].k) = metadata[i].v
               /\ \A i \in 1..Len(vectors) :
                    \/ /\ MapHas(metadata, vectors[i].k)
                       /\ MapGet(metadata, vectors[i].k).documentId = D
                    \/ /\ MapHas(vectors', vectors[i].k)
                       /\ MapGet(vectors', vectors[i].k) = vectors[i].v
               /\ StatsOf(after, D) = <<>>
               /\ after.documents = SelectSeq(before.documents, LAMBDA d : d.documentId # D)
               /\ calls'[p].count = IF StatsOf(before, D) = <<>> THEN 0
                                    ELSE StatsOf(before, D)[1].chunkCount
       /\ (calls[p].op = "remove" /\ calls[p].pc = "save" /\ calls'[p].pc = "idle"
             /\ last'.out.status = "ok")
            => last'.op = "remove" /\ last'.out.count = calls[p].count]_vars

(* a removeDocument has taken the chunks of a document out of an index    *)
(* that holds another document                                            *)
C12_Witness ==
  \E p \in Slots :
    /\ calls[p].op = "remove" /\ calls[p].count > 0
    /\ Len(metadata) > 0 /\ Len(vectors) > 0

(* C13: a removeDocument for a document that has no chunk (never added,   *)
(* or removed by the call before) changes neither map and counts 0; the   *)
(* only error of a removeDocument is a failed write; after any            *)
(* removeDocument(D) a second one would find nothing to remove.           *)
C13_RemoveIdempotent ==
  [][/\ \A p \in Slots :
          Removes(p) =>
            LET D == calls'[p].documentId
                after == [vectors |-> vectors', metadata |-> metadata']
            IN /\ ChunksToRemove(metadata, D) = <<>> =>
                    /\ vectors' = vectors /\ metadata' = metadata
                    /\ calls'[p].count = 0
               /\ RemoveChunks(after, D) = after
               /\ ChunksToRemove(metadata', D) = <<>>
     /\ (last'.op = "remove" /\ last'.out.status = "error") => last'.out.kind = "persistence"
    ]_vars

(* the second of two removeDocument calls for one document has returned 0 *)
C13_Witness ==
  /\ last.op = "remove" /\ last.out.status = "ok" /\ last.out.count = 0
  /\ made = 2 /\ disk.metadata = Whole(<<>>)
  /\ \E ix \in EarlierIndexes : Len(ChunksToRemove(ix.metadata, last.documentId)) > 0

(* C14: an addDocument call for a document of zero chunks (what           *)
(* processPDF hands on when chunkText kept no chunk) changes neither the  *)
(* maps nor the files in any of its steps, and ends in an error.          *)
C14_ZeroChunksIsAnError ==
  [][\A p \in Slots :
       LET c == IF calls[p].op = "add" THEN calls[p] ELSE calls'[p]
       IN (c.op = "add" /\ c.chunks = <<>> /\ calls'[p] # calls[p]) =>
            /\ vectors' = vectors /\ metadata' = metadata /\ disk' = disk
            /\ calls'[p].pc = "idle" => last'.op = "add" /\ last'.out.status = "error"]_vars

(* the sentences joined by single spaces *)
RECURSIVE JoinSentences(_)
JoinSentences(ss) ==
  IF ss = <<>> THEN EmptyString
  ELSE IF Len(ss) = 1 THEN ss[1]
  ELSE StrCat(StrCat(JoinSentences(SubSeq(ss, 1, Len(ss) - 1)), Space), ss[Len(ss)])

(* the sentences of the call of proc fit together within its maxChunkSize *)
AllFit ==
  /\ proc.pc = "done" /\ proc.sentences # <<>>
  /\ StrLen(JoinSentences(proc.sentences)) <= proc.maxChunkSize

(* C15 as claimed: when the sentences of a non-empty text all fit         *)
(* together within maxChunkSize, chunkText returns exactly one chunk, the *)
(* sentences in order.                                                    *)
C15_OneChunkWhenAllFit ==
  AllFit => proc.out = <<JoinSentences(proc.sentences)>>

(* C15, amended: when the sentences of a non-empty text all fit together  *)
(* within maxChunkSize, chunkText packs them into one chunk, the          *)
(* sentences in order, and returns it if it is longer than 50 characters  *)
(* and no chunk otherwise; "Sentence one. Sentence two. Sentence three."  *)
(* with maxChunkSize 1000 gives no chunk.                                 *)
C15_OneChunkWhenAllFitAndLong ==
  /\ AllFit =>
       /\ proc.chunks = <<JoinSentences(proc.sentences)>>
       /\ proc.out = IF StrLen(proc.chunks[1]) > MinChunkLength THEN proc.chunks ELSE <<>>
  /\ (proc.pc = "done" /\ proc.sentences = <<SentenceOne, SentenceTwo, SentenceThree>>
        /\ proc.maxChunkSize = DefaultMaxChunkSize) => proc.out = <<>>

(* three sentences that fit together were returned as one chunk *)
C15_Witness ==
  AllFit /\ Len(proc.sentences) = 3 /\ Len(proc.out) = 1 /\ proc.via = "chunkText"

(* a string holds a sentence *)
Contains(s, sentence) ==
  \E i \in 0..(Len(s) - Len(sentence)) : SubSeq(s, i + 1, i + Len(sentence)) = sentence

(* C16: each chunk returned by chunkText is of at most maxChunkSize       *)
(* characters, spaces and overlap tail counted, except a chunk that holds *)
(* a sentence longer than maxChunkSize.  Stated for the overlap sizes of  *)
(* one word and more, where the overlap tail is the last words of the     *)
(* emitted chunk.                                                         *)
C16_ChunksWithinMaxSize ==
  (proc.pc = "done" /\ proc.overlap >= CharsPerWord) =>
    \A j \in 1..Len(proc.out) :
      \/ StrLen(proc.out[j]) <= proc.maxChunkSize
      \/ \E i \in 1..Len(proc.sentences) :
           /\ StrLen(proc.sentences[i]) > proc.maxChunkSize
           /\ Contains(proc.out[j], proc.sentences[i])

(* the loop emits a chunk and starts the next one in this step *)
Emits == proc.pc = "loop" /\ proc'.pc = "loop" /\ Len(proc'.chunks) = Len(proc.chunks) + 1

(* C17: when chunkText emits a chunk and starts the next one, the overlap *)
(* tail is the last k words of the emitted chunk, k the smaller of        *)
(* floor(overlapSize / 6) and the number of its words (no word when       *)
(* overlapSize < 6), and the next chunk is the tail, a space and the      *)
(* sentence.                                                              *)
C17_OverlapIsLastWords ==
  [][Emits =>
       LET emitted == proc'.chunks[Len(proc'.chunks)]
           words == Split(emitted)
           k == Min(proc.overlap \div CharsPerWord, Len(words))
           tail == IF k = 0 THEN EmptyString ELSE SubSeq(words, Len(words) - k + 1, Len(words))
       IN /\ proc'.overlapText = tail
          /\ proc'.currentChunk = StrCat(StrCat(tail, Space), proc.sentences[proc.i + 1])]_vars

(* the packed chunks that the filter is to keep, in their order *)
RECURSIVE LongChunks(_, _)
LongChunks(chunks, least) ==
  IF chunks = <<>> THEN <<>>
  ELSE IF StrLen(Head(chunks)) >= least THEN <<Head(chunks)>> \o LongChunks(Tail(chunks), least)
  ELSE LongChunks(Tail(chunks), least)

(* C18 as claimed: chunkText returns the packed chunks of 50 characters   *)
(* and more, in their order, and no other.                                *)
C18_KeepsFiftyAndMore ==
  proc.pc = "done" => proc.out = LongChunks(proc.chunks, MinChunkLength)

(* C18, amended: chunkText returns the packed chunks of more than 50      *)
(* characters (51 and more), in their order, and no other: a packed chunk *)
(* of exactly 50 characters is discarded.                                 *)
C18_KeepsMoreThanFifty ==
  proc.pc = "done" => proc.out = LongChunks(proc.chunks, MinChunkLength + 1)

(* a packed chunk of exactly 50 characters was discarded, a longer one kept *)
C18_Witness ==
  /\ proc.pc = "done" /\ Len(proc.out) >= 1
  /\ \E j \in 1..Len(proc.chunks) : StrLen(proc.chunks[j]) = MinChunkLength

(* a vector of norm zero *)
ZeroNorm(embedding) == \A i \in 1..Len(embedding) : embedding[i] = 0

(* C19: calculateSimilarity returns a number, never NaN; it returns 0     *)
(* when either vector has norm zero or the two differ in length, and a    *)
(* number from -1 to 1 otherwise.                                         *)
C19_SimilarityIsANumber ==
  sim.pc = "done" =>
    /\ ~sim.out.nan
    /\ (ZeroNorm(sim.embedding1) \/ ZeroNorm(sim.embedding2)
          \/ Len(sim.embedding1) # Len(sim.embedding2)) => sim.out.num = 0
    /\ -1 <= sim.out.num /\ sim.out.num <= 1

(* a file is missing or does not parse *)
Unreadable(f) == f.kind # "whole"

C21_CallsEndWithoutAnswer ==
  /\ \A p \in Slots : (calls[p].pc = "embed") ~> (calls[p].pc # "embed")
  /\ \A q \in Readers : (readers[q].pc = "embed") ~> (readers[q].pc # "embed")

(* a step of a search call: the call, or one of its awaits is answered *)
SearchSteps ==
  \E q \in Readers : /\ readers'[q] # readers[q]
                     /\ readers[q].op = "search" \/ readers'[q].op = "search"

(* C22: search is a pure read.  No step of a search call, on a store that *)
(* was initialized or not, changes the two maps or the two files.         *)
C22_SearchIsPureRead ==
  [][SearchSteps => UNCHANGED <<vectors, metadata, disk>>]_vars

(* the batch a text belongs to *)
BatchOf(j) == (j - 1) \div batchSize

(* C23: within one generateBatchEmbeddings call at most batchSize requests *)
(* are in flight, a request of a batch is made only when every request of  *)
(* the batches before it was answered, and the call returns one vector for *)
(* each text, in the order of the texts.                                   *)
C23_BatchesInTurn ==
  LET b == emb.batch
  IN /\ Cardinality(Pending(b)) <= batchSize
     /\ \A j, k \in 1..Len(b.requests) :
          (b.requests[j] # "unsent" /\ BatchOf(k) < BatchOf(j)) => b.requests[k] = "done"
     /\ (emb.last.op = "generateBatchEmbeddings" /\ emb.last.status = "ok") =>
          /\ Len(emb.last.out) = Len(emb.last.texts)
          /\ \A j \in 1..Len(emb.last.texts) :
               emb.last.out[j] = generateEmbedding(emb.last.texts[j])

(* a call with more texts than one batch holds has returned *)
C23_Witness ==
  /\ emb.last.op = "generateBatchEmbeddings" /\ emb.last.status = "ok"
  /\ Len(emb.last.texts) > batchSize
  /\ Len(emb.last.out) = Len(emb.last.texts)

(* the chunk records of a document in a metadata map *)
Owned(meta, documentId) == SelectSeq(meta, LAMBDA e : e.v.documentId = documentId)

(* C24: getDocumentStats changes no state, and what it returns is the      *)
(* aggregate of the chunk records the store holds: totalChunks is the sum  *)
(* of the chunkCount entries, totalDocuments the number of documents that  *)
(* own a record, chunkCount and totalCharacters of a document the number   *)
(* and the total text length of its records.                               *)
C24_StatsAggregateState ==
  [][(last'.op = "stats" /\ made' = made + 1) =>
       LET documents == last'.out.results
           totalDocuments == last'.out.count
           totalChunks == last'.out.total
       IN /\ UNCHANGED <<vectors, metadata, isInitialized, disk>>
          /\ totalChunks = SumSeq([i \in 1..Len(documents) |-> documents[i].chunkCount])
          /\ totalDocuments = Cardinality({metadata[i].v.documentId : i \in 1..Len(metadata)})
          /\ Len(documents) = totalDocuments
          /\ \A i \in 1..Len(documents) :
               LET owned == Owned(metadata, documents[i].documentId)
               IN /\ documents[i].chunkCount = Len(owned)
                  /\ documents[i].chunkCount > 0
                  /\ documents[i].totalCharacters =
                       SumSeq([k \in 1..Len(owned) |-> Len(owned[k].v.text)])
    ]_vars

(* C25: the two maps of the store hold the same chunk ids in every state, *)
(* also after loadFromDisk has read the files that an earlier save left.  *)
C25_SameKeys == MapKeys(vectors) = MapKeys(metadata)

(* C26: whatever keys the caller's metadata object has, the record that   *)
(* the insert loop of addDocument(documentId, chunks, metadata) stores for *)
(* chunk i has the documentId of the call, chunkIndex i and the text of    *)
(* chunk i.                                                                *)
C26_RecordKeepsItsDocument ==
  [][\A p \in Slots :
       Inserts(p) =>
         \A i \in 1..Len(calls[p].chunks) :
           LET record == MapGet(metadata', chunkId(calls[p].documentId, i - 1))
           IN /\ record.documentId = calls[p].documentId
              /\ record.chunkIndex = i - 1
              /\ record.text = calls[p].chunks[i]
    ]_vars

(* the chunk ids that the earlier process wrote for KeptDocument *)
KeptKeys ==
  UNION {DocChunkIds(ix.metadata, KeptDocument) : ix \in EarlierIndexes}

(* no request has failed, no save is under way and both files are written *)
(* to the end                                                             *)
FilesAtRest ==
  /\ faults = 0
  /\ \A p \in Slots : ~Writing(calls[p])
  /\ \A f \in FileNames : disk[f].kind = "whole"

(* C27: while no call names KeptDocument and no request fails, the chunks  *)
(* that an earlier process persisted for KeptDocument stay in both files,  *)
(* whatever the order of the calls on the new instance, and the            *)
(* initialized store holds them when no call is under way.                 *)
C27_EarlierChunksKept ==
  /\ FilesAtRest => \A f \in FileNames : KeptKeys \subseteq MapKeys(JSONParse(disk[f]))
  /\ (FilesAtRest /\ isInitialized /\ Quiet /\ \A q \in Readers : readers[q].pc = "idle")
       => KeptKeys \subseteq (MapKeys(vectors) \cap MapKeys(metadata))

(* the calls that await pipeline() in EmbeddingService.initialize, and the *)
(* calls that are inside VectorStore.initialize                            *)
LoadingModel ==
  Cardinality({c \in Callers : emb.singles[c].pc = "pipeline"})
    + (IF emb.batch.pc = "pipeline" THEN 1 ELSE 0)

LoadingStore == Cardinality({q \in Readers : readers[q].pc \in {"mkdir", "load"}})

(* C28: the lazy setup runs once.  At most one call loads the model, and   *)
(* none once the service is initialized; at most one call is inside        *)
(* initialize of the store, and none once the store is initialized.        *)
C28_SetupRunsOnce ==
  /\ LoadingModel + (IF emb.isInitialized THEN 1 ELSE 0) <= 1
  /\ LoadingStore + (IF isInitialized THEN 1 ELSE 0) <= 1

(* C29: preprocessText is idempotent.  The text that the batch path hands  *)
(* to the model, preprocessed twice, is the text that the single path      *)
(* hands to it, preprocessed once.                                         *)
C29_PreprocessIdempotent == pre.pc = "twice" => pre.twice = pre.once

(* C30: when the health check of a constructed app has succeeded, the app *)
(* gets to fetch the document list and to fill activeDocuments from it.   *)
C30_StartupLoadsDocuments ==
  (app.pc = "constructed" /\ app.health = "ok") ~> (app.fetched > 0)

====
